---- MODULE Spec2Model ----
(***************************************************************************)
(* Session management of the "six" web framework (src/core/six_sessions.h, *)
(* six_sql.h, six_login.h, six_http_server.h): the session cache, the      *)
(* durable sessions and session_audit_log tables, the rate limiter, the    *)
(* audit logger, and the login layer that serves requests.                 *)
(*                                                                         *)
(* Conventions of the model                                                *)
(*  - Every value the code keeps as a std::string is a string here; time   *)
(*    stamps ("%Y-%m-%d %H:%M:%S", compared with operator>) are the number *)
(*    of seconds they denote, which orders them the same way.              *)
(*  - RAND_bytes never repeats a value that is still stored somewhere: the *)
(*    n-th retained draw is Rand(n).  A draw that is compared once and     *)
(*    dropped (the lookup salt of load_session, the salt refresh_session   *)
(*    hashes the presented token with) is Rand(rng + 1) without advancing  *)
(*    the counter, as long as reuse = 0.  SpecRefresh alone lets such a    *)
(*    draw repeat a stored salt (reuse = n makes it Rand(n)): that is the  *)
(*    only way the code gets past the comparisons that follow the draw.    *)
(*  - Argon2id is collision free: hash_with_salt is an injective function  *)
(*    of (data, salt).                                                     *)
(*  - Session fields no operation branches on (data, created_at,           *)
(*    updated_at, last_activity, created_ip, last_activity_ip) are left    *)
(*    out of the Session record and of the durable row.                    *)
(*  - db_up = FALSE is sqlite3_open failing.  Spec keeps the database      *)
(*    reachable and has no failed login (record_failed_attempt is not      *)
(*    called), so create_session is never throttled in it.  SpecRate is    *)
(*    the rate limiter with failed logins, SpecRestart is Spec with the    *)
(*    process restarting, SpecRefresh is refresh_session.                  *)
(*  - An operation is an operator from the state (World) to the state it   *)
(*    leaves and the value it returns; the actions apply the operators,    *)
(*    and the properties evaluate them in every reachable state.           *)
(*  - The request layer (six_http_server.h handleClient, six_login.h) is   *)
(*    the worker position pc, the two global pointers and current_user; a  *)
(*    null pointer is a record with active = FALSE.  Of the response       *)
(*    headers only the session cookie, the refresh token header and the    *)
(*    refresh-clearing header are kept.  The users table has a row for     *)
(*    user 1 and none for user 2.  SpecLogin is requests whose handlers    *)
(*    log in, log out and refresh, SpecLogout is one client over time,     *)
(*    SpecRequest is requests whose handlers read rows and may throw.      *)
(*  - SpecSteps runs the session operations in steps (critical section,    *)
(*    release of session_mutex, storage steps) with storage that may fail. *)
(*  - SpecThrottle fills the rate limiter with refreshes that fail.        *)
(*  - SpecRace is the steps of SpecSteps run by two workers, with the      *)
(*    staging and the commit of destroy_session as separate steps and with *)
(*    storage that works; SpecWorkers is two workers serving requests.     *)
(*    Both interleave whole calls on the unsynchronised globals, which is  *)
(*    one of the outcomes the data races on them can have.                 *)
(*  - SpecLocks is the operations as their sequences of lock, unlock and   *)
(*    storage steps on the three mutexes; SpecLocksFair adds the fairness  *)
(*    of the scheduler and of the mutexes.                                 *)
(***************************************************************************)
EXTENDS Integers, Sequences, FiniteSets, TLC

\* ------------------------------------------------------------------ bounds
MaxSessions == 1        \* create_session calls explored
MaxTicks == 2           \* clock advances explored
MaxAudit == 2           \* audit entries explored
MaxFailed == 5          \* failed attempts of one IP since its last clear
MaxOtherFailed == 1     \* the same, for an IP no session is created from
MaxRefreshSessions == 2 \* sessions explored where refresh_session mints one
MaxRefreshAudit == 4    \* audit entries explored where it does
MaxRefreshFailed == 1   \* failed refreshes of one IP since its last clear
MaxLoginAudit == 4      \* audit entries explored with requests

\* ------------------------------------------------------- program constants
MAX_ATTEMPTS == 5
LOCKOUT_DURATION == 900 \* 15 * 60
RESET_WINDOW == 60
SESSION_TTL == 3600     \* timestamp_plus_hours(1)
REFRESH_TTL == 2592000  \* timestamp_plus_days(30)

\* ------------------------------------------------------------------ inputs
Users == {1, 2}
IPs == {"10.0.0.1", "10.0.0.2"}
UserAgents == {"A", "B"}
CreateIPs == {"10.0.0.1"}
CreateAgents == {"A"}
TimeSteps == {1, SESSION_TTL}
RateSteps == {1, RESET_WINDOW}
RateUsers == {1}
UnknownId == "deadbeef"

VARIABLES
    now,                \* time(nullptr)
    ticks,              \* clock advances so far
    rng,                \* retained RAND_bytes draws so far
    db_up,              \* sqlite3_open succeeds
    session_cache,      \* session_id -> Session
    sessions,           \* durable table sessions: session_id_hash -> row
    session_audit_log,  \* durable table session_audit_log, in insertion order
    log_queue,          \* SessionAuditLogger::log_queue
    ip_attempts,        \* RateLimiter::ip_attempts
    pending_updates,    \* six_sql.h pending_updates, for table sessions
    reuse,              \* 0, or n: the next dropped draw repeats Rand(n)
    issued,             \* session_id -> the Session create_session returned
    gone,               \* <<id, cause>>: ids that left the cache, and how
    rl_hist,            \* per IP: when its window opened, and the times of
                        \* its failed attempts since its last clear
    g_current_request,  \* six_http_server.h g_current_request and what it
                        \* points to
    g_current_response, \* g_current_response and the headers of what it
                        \* points to
    current_user,       \* six_login.h current_user
    pc,                 \* the worker: "idle", or "handler" inside handleClient
    call,               \* the session operation each thread is in, step by step
    session_mutex,      \* the thread that holds session_mutex, 0 if none
    rate_limit_mutex,   \* the thread that holds RateLimiter::rate_limit_mutex
    log_mutex           \* the thread that holds SessionAuditLogger::log_mutex

vars == <<now, ticks, rng, db_up, session_cache, sessions, session_audit_log,
          log_queue, ip_attempts, pending_updates, reuse, issued, gone,
          rl_hist, g_current_request, g_current_response, current_user, pc,
          call, session_mutex, rate_limit_mutex, log_mutex>>

\* the state of the request layer
http == <<g_current_request, g_current_response, current_user, pc>>
locks == <<rate_limit_mutex, log_mutex>>
threads == <<call, session_mutex, rate_limit_mutex, log_mutex>>

\* ----------------------------------------------------------------- helpers
Rand(n) == "r" \o ToString(n)

hash_with_salt(data, salt) == "H(" \o data \o "," \o salt \o ")"

DefaultSession ==
    [session_id |-> "", session_id_hash |-> "", user_id |-> 0,
     expires_at |-> 0, ip_address |-> "", user_agent |-> "",
     session_salt |-> "", refresh_token |-> "", refresh_token_hash |-> "",
     refresh_expires_at |-> 0, exists |-> FALSE, is_valid |-> TRUE]

EmptyMap == [x \in {} |-> x]

Remove(f, k) == [x \in DOMAIN f \ {k} |-> f[x]]

Put(f, k, v) == [x \in DOMAIN f \cup {k} |-> IF x = k THEN v ELSE f[x]]

\* g_current_request == nullptr, g_current_response == nullptr
NoRequest ==
    [active |-> FALSE, session_id |-> "", refresh_token |-> "",
     ip |-> "", user_agent |-> ""]

NoResponse == [active |-> FALSE, headers |-> EmptyMap]

\* a CurrentUser as constructed (six_login.h lines 84-92), without data
\* the threads that call the session operations
Threads == {1}

\* the worker threads of the server's pool, which serve requests side by side
Workers == {1, 2}

\* a thread that is in no session operation
Idle ==
    [op |-> "idle", at |-> "", next |-> "", id |-> "", user_id |-> 0,
     ip |-> "", ua |-> "", reason |-> "", s |-> DefaultSession, io |-> 0,
     threw |-> FALSE, todo |-> <<>>]

EmptyUser ==
    [is_authenticated |-> FALSE, id |-> 0, session_id |-> "",
     refresh_token |-> "", ip_address |-> "", user_agent |-> ""]

\* The state the operations read and write, as one value, so that an
\* operation that calls another (refresh_session, login_user) composes them.
World ==
    [now |-> now, rng |-> rng, db_up |-> db_up, reuse |-> reuse,
     session_cache |-> session_cache, sessions |-> sessions,
     session_audit_log |-> session_audit_log, log_queue |-> log_queue,
     ip_attempts |-> ip_attempts, pending_updates |-> pending_updates,
     g_current_request |-> g_current_request,
     g_current_response |-> g_current_response,
     current_user |-> current_user]

\* ----------------------------------------------------------------- storage
\* six_sql_insert("sessions", row): nothing when the database cannot be
\* opened; a second row with the same primary key is refused by sqlite.
six_sql_insert_sessions(w, row) ==
    IF w.db_up /\ row.session_id_hash \notin DOMAIN w.sessions
    THEN [w EXCEPT !.sessions = Put(w.sessions, row.session_id_hash, row)]
    ELSE w

\* six_sql_insert("session_audit_log", row)
six_sql_insert_audit(w, row) ==
    IF w.db_up
    THEN [w EXCEPT !.session_audit_log = Append(w.session_audit_log, row)]
    ELSE w

\* six_sql_find_by("sessions", "session_id_hash", value): a row found is
\* staged in pending_updates; the handle is the staged row, if there is one.
six_sql_find_by(w, value) ==
    IF ~w.db_up
    THEN [w |-> w, found |-> FALSE]
    ELSE LET staged == IF value \in DOMAIN w.sessions
                       THEN Put(w.pending_updates, value, w.sessions[value])
                       ELSE w.pending_updates
         IN [w |-> [w EXCEPT !.pending_updates = staged],
             found |-> value \in DOMAIN staged]

\* row[column] = value through the handle six_sql_find_by returned
StageIsValid(w, key, v) ==
    [w EXCEPT !.pending_updates[key].is_valid = v]

StageUserId(w, key, v) ==
    [w EXCEPT !.pending_updates[key].user_id = v]

\* mutant: the staged rows are dropped without being written
six_sql_commit_discard(w) ==
    IF ~w.db_up THEN w ELSE [w EXCEPT !.pending_updates = EmptyMap]

\* six_sql_commit(): every staged row overwrites the columns of its durable
\* row that differ from it, then the staging map is cleared.
six_sql_commit(w) ==
    IF ~w.db_up
    THEN w
    ELSE [w EXCEPT
            !.sessions = [h \in DOMAIN w.sessions |->
                            IF h \in DOMAIN w.pending_updates
                            THEN w.pending_updates[h]
                            ELSE w.sessions[h]],
            !.pending_updates = EmptyMap]

\* six_sql_exec("UPDATE sessions SET is_valid = 0 WHERE user_id = <u>")
six_sql_exec_invalidate_user(w, u) ==
    IF ~w.db_up
    THEN w
    ELSE [w EXCEPT
            !.sessions = [h \in DOMAIN w.sessions |->
                            IF w.sessions[h].user_id = u
                            THEN [w.sessions[h] EXCEPT !.is_valid = "0"]
                            ELSE w.sessions[h]]]

\* ------------------------------------------------------------ rate limiter
RateLimitEntry == [attempts |-> 0, reset_time |-> 0]

\* mutant: a new window keeps the count of the one before
WindowOf_keeps_count(e, t) ==
    IF t > e.reset_time
    THEN [attempts |-> e.attempts, reset_time |-> t + RESET_WINDOW]
    ELSE e

\* the window reset both is_rate_limited and record_failed_attempt start with
WindowOf(e, t) ==
    IF t > e.reset_time
    THEN [attempts |-> 0, reset_time |-> t + RESET_WINDOW]
    ELSE e

\* mutant: the IP is limited from the sixth attempt on
is_rate_limited_strict(tbl, ip, t) ==
    LET e == WindowOf(tbl[ip], t)
    IN [tbl |-> [tbl EXCEPT ![ip] = e], limited |-> e.attempts > MAX_ATTEMPTS]

is_rate_limited(tbl, ip, t) ==
    LET e == WindowOf(tbl[ip], t)
    IN [tbl |-> [tbl EXCEPT ![ip] = e], limited |-> e.attempts >= MAX_ATTEMPTS]

\* mutant: the attempt is not counted
record_failed_attempt_uncounted(tbl, ip, t) ==
    [tbl EXCEPT ![ip] = WindowOf(tbl[ip], t)]

record_failed_attempt(tbl, ip, t) ==
    LET e == WindowOf(tbl[ip], t)
    IN [tbl EXCEPT ![ip] = [e EXCEPT !.attempts = e.attempts + 1]]

\* mutant: the counts of all IPs are cleared
clear_failed_attempts_all(tbl, ip) ==
    [i \in DOMAIN tbl |-> [tbl[i] EXCEPT !.attempts = 0]]

clear_failed_attempts(tbl, ip) ==
    [tbl EXCEPT ![ip].attempts = 0]

\* ------------------------------------------------------------ audit logger
write_audit_log_to_db(w, log) == six_sql_insert_audit(w, log)

\* mutant: the new entry is put in front of the queue
log_session_event_in_front(w, session_id, user_id, action, ip_address, user_agent, details) ==
    LET log == [session_id |-> session_id, user_id |-> user_id,
                action |-> action, ip_address |-> ip_address,
                user_agent |-> user_agent, timestamp |-> w.now,
                details |-> details]
    IN write_audit_log_to_db(
           [w EXCEPT !.log_queue = <<log>> \o w.log_queue], log)

\* SessionAuditLogger::log_session_event, lines 280-313
log_session_event(w, session_id, user_id, action, ip_address, user_agent, details) ==
    LET log == [session_id |-> session_id, user_id |-> user_id,
                action |-> action, ip_address |-> ip_address,
                user_agent |-> user_agent, timestamp |-> w.now,
                details |-> details]
    IN write_audit_log_to_db(
           [w EXCEPT !.log_queue = Append(w.log_queue, log)], log)

detect_hijack_attempt(w, session_id, new_ip) ==
    log_session_event(w, session_id, 0, "hijack_attempt", new_ip, "",
                      "Session accessed from different IP")

\* --------------------------------------------------------------- sessions
\* mutant: the row is inserted already invalidated
SessionRow_invalid(s) ==
    [session_id_hash |-> s.session_id_hash, session_salt |-> s.session_salt,
     user_id |-> s.user_id, expires_at |-> s.expires_at,
     ip_address |-> s.ip_address, user_agent |-> s.user_agent,
     refresh_token_hash |-> s.refresh_token_hash,
     refresh_expires_at |-> s.refresh_expires_at, is_valid |-> "0"]

\* the row create_session inserts into the table sessions
SessionRow(s) ==
    [session_id_hash |-> s.session_id_hash, session_salt |-> s.session_salt,
     user_id |-> s.user_id, expires_at |-> s.expires_at,
     ip_address |-> s.ip_address, user_agent |-> s.user_agent,
     refresh_token_hash |-> s.refresh_token_hash,
     refresh_expires_at |-> s.refresh_expires_at, is_valid |-> "1"]

\* the Session create_session builds before it stores it
NewSession(w, user_id, ip_address, user_agent) ==
    LET id == Rand(w.rng + 1)
        salt == Rand(w.rng + 2)
        token == Rand(w.rng + 3)
        refresh_salt == Rand(w.rng + 4)
    IN [session_id |-> id,
        session_id_hash |-> hash_with_salt(id, salt),
        user_id |-> user_id,
        expires_at |-> w.now + SESSION_TTL,
        ip_address |-> ip_address,
        user_agent |-> user_agent,
        session_salt |-> salt,
        refresh_token |-> token,
        refresh_token_hash |-> hash_with_salt(token, refresh_salt),
        refresh_expires_at |-> w.now + REFRESH_TTL,
        exists |-> TRUE,
        is_valid |-> TRUE]

\* mutant: the rate limiter is not asked
create_session_unthrottled(w, user_id, ip_address, user_agent) ==
    LET s == NewSession(w, user_id, ip_address, user_agent)
        w1 == [w EXCEPT !.rng = w.rng + 4,
                        !.session_cache = Put(w.session_cache, s.session_id, s)]
        w2 == six_sql_insert_sessions(w1, SessionRow(s))
        w3 == log_session_event(w2, s.session_id, user_id, "create",
                  ip_address, user_agent, "New session created")
    IN [w |-> [w3 EXCEPT !.ip_attempts =
                  clear_failed_attempts(w3.ip_attempts, ip_address)],
        ret |-> s, threw |-> FALSE, error |-> ""]

\* create_session, lines 380-450
create_session(w, user_id, ip_address, user_agent) ==
    LET rl == is_rate_limited(w.ip_attempts, ip_address, w.now)
        w0 == [w EXCEPT !.ip_attempts = rl.tbl]
    IN IF rl.limited
       THEN [w |-> w0, ret |-> DefaultSession, threw |-> TRUE,
             error |-> "Too many login attempts. Try again later."]
       ELSE LET s == NewSession(w0, user_id, ip_address, user_agent)
                w1 == [w0 EXCEPT !.rng = w0.rng + 4,
                                 !.session_cache =
                                     Put(w0.session_cache, s.session_id, s)]
                w2 == six_sql_insert_sessions(w1, SessionRow(s))
                w3 == log_session_event(w2, s.session_id,
                          user_id, "create", ip_address, user_agent,
                          "New session created")
                w4 == [w3 EXCEPT !.ip_attempts =
                          clear_failed_attempts(w3.ip_attempts, ip_address)]
            IN [w |-> w4, ret |-> s, threw |-> FALSE, error |-> ""]

\* mutant: the user agent is not compared
BindingMismatch_ip_only(s, current_ip, current_user_agent) ==
    s.ip_address # current_ip

\* load_session, lines 458 and 463: the binding recorded in the session is
\* not the one presented
BindingMismatch(s, current_ip, current_user_agent) ==
    s.ip_address # current_ip \/ s.user_agent # current_user_agent

\* mutant: a session is expired from the second it expires in
Expired_inclusive(t, s) == t >= s.expires_at

\* mutant: a session is expired one second late
Expired_late(t, s) == t > s.expires_at + 1

\* load_session, lines 469 and 516: now > s.expires_at
Expired(t, s) == t > s.expires_at

\* load_session, lines 485-508: the Session read back from a durable row
SessionOfRow(id, row) ==
    [session_id |-> id,
     session_id_hash |-> row.session_id_hash,
     user_id |-> row.user_id,
     expires_at |-> row.expires_at,
     ip_address |-> row.ip_address,
     user_agent |-> row.user_agent,
     session_salt |-> row.session_salt,
     refresh_token |-> "",
     refresh_token_hash |-> row.refresh_token_hash,
     refresh_expires_at |-> row.refresh_expires_at,
     exists |-> TRUE,
     is_valid |-> (row.is_valid = "1")]

\* mutant: a session presented with another binding is evicted
load_session_hit_evicts(w, id, current_ip, current_user_agent) ==
    LET s == w.session_cache[id]
    IN IF BindingMismatch(s, current_ip, current_user_agent)
       THEN [w |-> detect_hijack_attempt(
                       [w EXCEPT !.session_cache = Remove(w.session_cache, id)],
                       id, current_ip),
             ret |-> DefaultSession]
       ELSE IF Expired(w.now, s)
       THEN [w |-> [w EXCEPT !.session_cache = Remove(w.session_cache, id)],
             ret |-> DefaultSession]
       ELSE [w |-> w, ret |-> s]

\* load_session, lines 453-476: the id is in the cache
load_session_hit(w, id, current_ip, current_user_agent) ==
    LET s == w.session_cache[id]
    IN IF BindingMismatch(s, current_ip, current_user_agent)
       THEN [w |-> detect_hijack_attempt(w, id, current_ip),
             ret |-> DefaultSession]
       ELSE IF Expired(w.now, s)
       THEN [w |-> [w EXCEPT !.session_cache = Remove(w.session_cache, id)],
             ret |-> DefaultSession]
       ELSE [w |-> w, ret |-> s]

\* mutant: the lookup uses the salt stored with the session's durable row
LookupSalt_stored(w, id) ==
    LET rows == {h \in DOMAIN w.sessions :
                    h = hash_with_salt(id, w.sessions[h].session_salt)}
    IN IF rows = {} THEN Rand(w.rng + 1)
       ELSE w.sessions[CHOOSE h \in rows : TRUE].session_salt

\* SaltGenerator::get_unique_salt() for a salt that is used for one
\* comparison and dropped (load_session line 479, refresh_session line 543)
LookupSalt(w, id) ==
    IF w.reuse = 0 THEN Rand(w.rng + 1) ELSE Rand(w.reuse)

\* load_session, lines 478-532: the id is not in the cache
load_session_miss(w, id, current_ip, current_user_agent) ==
    LET session_salt == LookupSalt(w, id)
        session_hash == hash_with_salt(id, session_salt)
        f == six_sql_find_by(w, session_hash)
    IN IF ~f.found
       THEN [w |-> f.w, ret |-> DefaultSession]
       ELSE LET s == SessionOfRow(id, f.w.pending_updates[session_hash])
            IN IF BindingMismatch(s, current_ip, current_user_agent)
               THEN [w |-> detect_hijack_attempt(f.w, id, current_ip),
                     ret |-> DefaultSession]
               ELSE IF Expired(w.now, s)
               THEN [w |-> f.w, ret |-> DefaultSession]
               ELSE [w |-> log_session_event(
                              [f.w EXCEPT !.session_cache =
                                   Put(f.w.session_cache, id, s)],
                              id, s.user_id, "load", current_ip,
                              current_user_agent, ""),
                     ret |-> s]

load_session(w, id, current_ip, current_user_agent) ==
    IF id \in DOMAIN w.session_cache
    THEN load_session_hit(w, id, current_ip, current_user_agent)
    ELSE load_session_miss(w, id, current_ip, current_user_agent)

\* mutant: a successful refresh removes the presented session from the cache
refresh_session_rotating(w, session_id, refresh_token, current_ip, current_user_agent) ==
    LET l == load_session(w, session_id, current_ip, current_user_agent)
        s == l.ret
        failed == [l.w EXCEPT !.ip_attempts =
                      record_failed_attempt(l.w.ip_attempts, current_ip, l.w.now)]
    IN IF ~s.exists
       THEN [w |-> failed, ret |-> DefaultSession, threw |-> TRUE,
             error |-> "Invalid session"]
       ELSE IF hash_with_salt(refresh_token, LookupSalt(l.w, refresh_token))
                   # s.refresh_token_hash
       THEN [w |-> failed, ret |-> DefaultSession, threw |-> TRUE,
             error |-> "Invalid refresh token"]
       ELSE IF l.w.now > s.refresh_expires_at
       THEN [w |-> l.w, ret |-> DefaultSession, threw |-> TRUE,
             error |-> "Refresh token expired"]
       ELSE LET c == create_session(l.w, s.user_id, current_ip, current_user_agent)
                w1 == [c.w EXCEPT !.session_cache =
                          Remove(c.w.session_cache, session_id)]
            IN IF c.threw THEN c
               ELSE [c EXCEPT !.w = log_session_event(w1, session_id,
                                        s.user_id, "refresh", current_ip,
                                        current_user_agent,
                                        "Session refreshed with new ID")]

\* mutant: a failed refresh is not reported to the rate limiter
refresh_session_forgiving(w, session_id, refresh_token, current_ip, current_user_agent) ==
    LET l == load_session(w, session_id, current_ip, current_user_agent)
        s == l.ret
    IN IF ~s.exists
       THEN [w |-> l.w, ret |-> DefaultSession, threw |-> TRUE,
             error |-> "Invalid session"]
       ELSE IF hash_with_salt(refresh_token, LookupSalt(l.w, refresh_token))
                   # s.refresh_token_hash
       THEN [w |-> l.w, ret |-> DefaultSession, threw |-> TRUE,
             error |-> "Invalid refresh token"]
       ELSE IF l.w.now > s.refresh_expires_at
       THEN [w |-> l.w, ret |-> DefaultSession, threw |-> TRUE,
             error |-> "Refresh token expired"]
       ELSE LET c == create_session(l.w, s.user_id, current_ip, current_user_agent)
            IN IF c.threw THEN c
               ELSE [c EXCEPT !.w = log_session_event(c.w, session_id,
                                        s.user_id, "refresh", current_ip,
                                        current_user_agent,
                                        "Session refreshed with new ID")]

\* refresh_session, lines 535-563
refresh_session(w, session_id, refresh_token, current_ip, current_user_agent) ==
    LET l == load_session(w, session_id, current_ip, current_user_agent)
        s == l.ret
        failed == [l.w EXCEPT !.ip_attempts =
                      record_failed_attempt(l.w.ip_attempts, current_ip, l.w.now)]
    IN IF ~s.exists
       THEN [w |-> failed, ret |-> DefaultSession, threw |-> TRUE,
             error |-> "Invalid session"]
       ELSE IF hash_with_salt(refresh_token, LookupSalt(l.w, refresh_token))
                   # s.refresh_token_hash
       THEN [w |-> failed, ret |-> DefaultSession, threw |-> TRUE,
             error |-> "Invalid refresh token"]
       ELSE IF l.w.now > s.refresh_expires_at
       THEN [w |-> l.w, ret |-> DefaultSession, threw |-> TRUE,
             error |-> "Refresh token expired"]
       ELSE LET c == create_session(l.w, s.user_id, current_ip, current_user_agent)
            IN IF c.threw THEN c
               ELSE [c EXCEPT !.w = log_session_event(c.w, session_id,
                                        s.user_id, "refresh", current_ip,
                                        current_user_agent,
                                        "Session refreshed with new ID")]

\* save_session, lines 565-583
save_session(w, s) ==
    LET w1 == [w EXCEPT !.session_cache = Put(w.session_cache, s.session_id, s)]
        f == six_sql_find_by(w1, s.session_id_hash)
    IN IF ~f.found
       THEN f.w
       ELSE six_sql_commit(
                StageIsValid(StageUserId(f.w, s.session_id_hash, s.user_id),
                             s.session_id_hash,
                             IF s.is_valid THEN "1" ELSE "0"))

\* mutant: the logout event is logged whether or not a durable row was found
destroy_session_always_logs(w, id) ==
    LET s == IF id \in DOMAIN w.session_cache
             THEN w.session_cache[id]
             ELSE DefaultSession
        w1 == [w EXCEPT !.session_cache = Remove(w.session_cache, id)]
        f == six_sql_find_by(w1, s.session_id_hash)
    IN log_session_event(
           IF f.found
           THEN six_sql_commit(StageIsValid(f.w, s.session_id_hash, "0"))
           ELSE f.w,
           id, s.user_id, "logout", "", "",
           "Session destroyed - user logged out")

\* destroy_session, lines 585-609
destroy_session(w, id) ==
    LET s == IF id \in DOMAIN w.session_cache
             THEN w.session_cache[id]
             ELSE DefaultSession
        w1 == [w EXCEPT !.session_cache = Remove(w.session_cache, id)]
        f == six_sql_find_by(w1, s.session_id_hash)
    IN IF ~f.found
       THEN f.w
       ELSE log_session_event(
                six_sql_commit(StageIsValid(f.w, s.session_id_hash, "0")),
                id, s.user_id, "logout", "", "",
                "Session destroyed - user logged out")

\* mutant: a logout entry is written for one of the revoked sessions instead
\* of the revoke_all entry
revoke_all_user_sessions_per_session(w, user_id, reason) ==
    LET to_delete == {id \in DOMAIN w.session_cache :
                          w.session_cache[id].user_id = user_id}
        w1 == [w EXCEPT !.session_cache =
                  [id \in DOMAIN w.session_cache \ to_delete |->
                       w.session_cache[id]]]
        w2 == six_sql_exec_invalidate_user(w1, user_id)
    IN IF to_delete = {}
       THEN log_session_event(w2, "", user_id, "revoke_all", "", "",
                              "All sessions revoked: " \o reason)
       ELSE log_session_event(w2, CHOOSE id \in to_delete : TRUE, user_id,
                              "logout", "", "",
                              "All sessions revoked: " \o reason)

\* mutant: every cached session is swept, whoever its user is
revoke_all_user_sessions_everyone(w, user_id, reason) ==
    LET w1 == [w EXCEPT !.session_cache = EmptyMap]
        w2 == six_sql_exec_invalidate_user(w1, user_id)
    IN log_session_event(w2, "", user_id, "revoke_all", "", "",
                         "All sessions revoked: " \o reason)

\* revoke_all_user_sessions, lines 611-638
revoke_all_user_sessions(w, user_id, reason) ==
    LET to_delete == {id \in DOMAIN w.session_cache :
                          w.session_cache[id].user_id = user_id}
        w1 == [w EXCEPT !.session_cache =
                  [id \in DOMAIN w.session_cache \ to_delete |->
                       w.session_cache[id]]]
        w2 == six_sql_exec_invalidate_user(w1, user_id)
    IN log_session_event(w2, "", user_id, "revoke_all", "", "",
                         "All sessions revoked: " \o reason)

\* ------------------------------------------------------- six_login.h
\* the ids that have a row in the durable table users
UserRows == {1}

\* six_sql_find_by_readonly("users", "id", id) returns a row
UserRowFound(w, id) == w.db_up /\ id \in UserRows

\* h with the headers of m set
SetHeaders(h, m) ==
    [k \in DOMAIN h \cup DOMAIN m |-> IF k \in DOMAIN m THEN m[k] ELSE h[k]]

SessionCookie(id) ==
    "session_id=" \o id \o "; Path=/; Max-Age=3600; HttpOnly; Secure; SameSite=Strict"

ClearedCookie ==
    "session_id=; Path=/; Max-Age=0; HttpOnly; Secure; SameSite=Strict"

\* mutant: a session that was invalidated still authenticates
load_from_request_ignores_valid(w, throws) ==
    LET req == w.g_current_request
        cu0 == [w.current_user EXCEPT !.is_authenticated = FALSE, !.id = 0,
                                      !.session_id = req.session_id,
                                      !.refresh_token = ""]
        cu1 == [cu0 EXCEPT !.ip_address = req.ip,
                           !.user_agent = req.user_agent,
                           !.refresh_token = req.refresh_token]
        l == load_session(w, req.session_id, req.ip, req.user_agent)
    IN IF req.session_id = ""
       THEN [w EXCEPT !.current_user = cu0]
       ELSE IF throws /\ req.session_id \notin DOMAIN w.session_cache
       THEN [w EXCEPT !.current_user = cu1]
       ELSE IF ~l.ret.exists \/ l.ret.user_id = 0
               \/ ~UserRowFound(l.w, l.ret.user_id)
       THEN [l.w EXCEPT !.current_user = cu1]
       ELSE [l.w EXCEPT !.current_user =
                [cu1 EXCEPT !.is_authenticated = TRUE, !.id = l.ret.user_id]]

\* CurrentUser::load_from_request, lines 94-135, on current_user and the
\* request g_current_request points to.  throws: RAND_bytes or Argon2 fails
\* inside load_session (lines 43-45, 208-210 of six_sessions.h), which only
\* the cache-miss path calls; the exception is caught at line 131.
load_from_request(w, throws) ==
    LET req == w.g_current_request
        cu0 == [w.current_user EXCEPT !.is_authenticated = FALSE, !.id = 0,
                                      !.session_id = req.session_id,
                                      !.refresh_token = ""]
        cu1 == [cu0 EXCEPT !.ip_address = req.ip,
                           !.user_agent = req.user_agent,
                           !.refresh_token = req.refresh_token]
        l == load_session(w, req.session_id, req.ip, req.user_agent)
    IN IF req.session_id = ""
       THEN [w EXCEPT !.current_user = cu0]
       ELSE IF throws /\ req.session_id \notin DOMAIN w.session_cache
       THEN [w EXCEPT !.current_user = cu1]
       ELSE IF ~l.ret.exists \/ ~l.ret.is_valid \/ l.ret.user_id = 0
               \/ ~UserRowFound(l.w, l.ret.user_id)
       THEN [l.w EXCEPT !.current_user = cu1]
       ELSE [l.w EXCEPT !.current_user =
                [cu1 EXCEPT !.is_authenticated = TRUE, !.id = l.ret.user_id]]

\* load_current_user, lines 345-349
load_current_user(w, throws) ==
    IF w.g_current_request.active THEN load_from_request(w, throws) ELSE w

\* a SQLRowRef to a row of users: null, or the row of id
NullRow == [present |-> FALSE, id |-> 0, username |-> ""]

UserRow(id) == [present |-> TRUE, id |-> id, username |-> "u" \o ToString(id)]

\* mutant: no login audit entry is written
login_user_unlogged(w, user) ==
    LET req == w.g_current_request
        c == create_session(w, user.id, req.ip, req.user_agent)
        s == c.ret
        w1 == [c.w EXCEPT !.g_current_response.headers =
                  SetHeaders(@, [k \in {"Set-Cookie", "X-Refresh-Token"} |->
                                    IF k = "Set-Cookie"
                                    THEN SessionCookie(s.session_id)
                                    ELSE s.refresh_token])]
        w2 == w1
        w3 == [w2 EXCEPT !.ip_attempts = clear_failed_attempts(@, req.ip)]
    IN IF ~user.present \/ ~w.g_current_response.active
          \/ ~w.g_current_request.active
       THEN w
       ELSE IF c.threw THEN c.w
       ELSE [w3 EXCEPT !.current_user =
                [is_authenticated |-> TRUE, id |-> user.id,
                 session_id |-> s.session_id,
                 refresh_token |-> s.refresh_token,
                 ip_address |-> req.ip, user_agent |-> req.user_agent]]

\* mutant: a login that is throttled clears the IP's failed attempts
login_user_forgiving(w, user) ==
    LET req == w.g_current_request
        c == create_session(w, user.id, req.ip, req.user_agent)
        s == c.ret
        w1 == [c.w EXCEPT !.g_current_response.headers =
                  SetHeaders(@, [k \in {"Set-Cookie", "X-Refresh-Token"} |->
                                    IF k = "Set-Cookie"
                                    THEN SessionCookie(s.session_id)
                                    ELSE s.refresh_token])]
        w2 == log_session_event(w1, s.session_id, user.id, "login", req.ip,
                                req.user_agent,
                                "User " \o user.username \o " logged in")
        w3 == [w2 EXCEPT !.ip_attempts = clear_failed_attempts(@, req.ip)]
    IN IF ~user.present \/ ~w.g_current_response.active
          \/ ~w.g_current_request.active
       THEN w
       ELSE IF c.threw
       THEN [c.w EXCEPT !.ip_attempts = clear_failed_attempts(@, req.ip)]
       ELSE [w3 EXCEPT !.current_user =
                [is_authenticated |-> TRUE, id |-> user.id,
                 session_id |-> s.session_id,
                 refresh_token |-> s.refresh_token,
                 ip_address |-> req.ip, user_agent |-> req.user_agent]]

\* login_user, lines 167-218; the throttling error of create_session is
\* caught at line 215
login_user(w, user) ==
    LET req == w.g_current_request
        c == create_session(w, user.id, req.ip, req.user_agent)
        s == c.ret
        w1 == [c.w EXCEPT !.g_current_response.headers =
                  SetHeaders(@, [k \in {"Set-Cookie", "X-Refresh-Token"} |->
                                    IF k = "Set-Cookie"
                                    THEN SessionCookie(s.session_id)
                                    ELSE s.refresh_token])]
        w2 == log_session_event(w1, s.session_id, user.id, "login", req.ip,
                                req.user_agent,
                                "User " \o user.username \o " logged in")
        w3 == [w2 EXCEPT !.ip_attempts = clear_failed_attempts(@, req.ip)]
    IN IF ~user.present \/ ~w.g_current_response.active
          \/ ~w.g_current_request.active
       THEN w
       ELSE IF c.threw THEN c.w
       ELSE [w3 EXCEPT !.current_user =
                [is_authenticated |-> TRUE, id |-> user.id,
                 session_id |-> s.session_id,
                 refresh_token |-> s.refresh_token,
                 ip_address |-> req.ip, user_agent |-> req.user_agent]]

\* mutant: the session is not destroyed
logout_user_keeps_session(w) ==
    LET w1 == IF w.current_user.session_id = "" THEN w
              ELSE log_session_event(w,
                       w.current_user.session_id, w.current_user.id, "logout",
                       w.current_user.ip_address, w.current_user.user_agent,
                       "User logged out")
        w2 == IF ~w1.g_current_response.active THEN w1
              ELSE [w1 EXCEPT !.g_current_response.headers =
                       SetHeaders(@, [k \in {"Set-Cookie", "X-Clear-Refresh-Token"} |->
                                         IF k = "Set-Cookie" THEN ClearedCookie
                                         ELSE "true"])]
    IN [w2 EXCEPT !.current_user = EmptyUser]

\* logout_user, lines 220-246
logout_user(w) ==
    LET w1 == IF w.current_user.session_id = "" THEN w
              ELSE log_session_event(
                       destroy_session(w, w.current_user.session_id),
                       w.current_user.session_id, w.current_user.id, "logout",
                       w.current_user.ip_address, w.current_user.user_agent,
                       "User logged out")
        w2 == IF ~w1.g_current_response.active THEN w1
              ELSE [w1 EXCEPT !.g_current_response.headers =
                       SetHeaders(@, [k \in {"Set-Cookie", "X-Clear-Refresh-Token"} |->
                                         IF k = "Set-Cookie" THEN ClearedCookie
                                         ELSE "true"])]
    IN [w2 EXCEPT !.current_user = EmptyUser]

\* the element of a one-element set
TheOne(S) == CHOOSE v \in S : TRUE

\* lines 266-281 of refresh_session_token: r is what refresh_session gave
RefreshOutcome(r) ==
    IF r.threw THEN [w |-> logout_user(r.w), ret |-> FALSE]
    ELSE [w |-> [r.w EXCEPT
                   !.g_current_response.headers =
                       SetHeaders(@, [k \in {"Set-Cookie", "X-Refresh-Token"} |->
                                         IF k = "Set-Cookie"
                                         THEN SessionCookie(r.ret.session_id)
                                         ELSE r.ret.refresh_token]),
                   !.current_user.session_id = r.ret.session_id,
                   !.current_user.refresh_token = r.ret.refresh_token],
          ret |-> TRUE]

\* refresh_session_token, lines 248-287
refresh_session_token(w) ==
    LET req == w.g_current_request
    IN IF ~req.active \/ ~w.g_current_response.active
       THEN [w |-> w, ret |-> FALSE]
       ELSE IF req.session_id = "" \/ req.refresh_token = ""
       THEN [w |-> w, ret |-> FALSE]
       ELSE TheOne({RefreshOutcome(r) :
                       r \in {refresh_session(w, req.session_id,
                                              req.refresh_token, req.ip,
                                              req.user_agent)}})

\* mutant: the password is compared with the one on record
require_reauthentication_checked(w, password) ==
    /\ w.current_user.is_authenticated
    /\ UserRowFound(w, w.current_user.id)
    /\ password = "secret"

\* require_reauthentication, lines 324-343
require_reauthentication(w, password) ==
    /\ w.current_user.is_authenticated
    /\ UserRowFound(w, w.current_user.id)

\* ----------------------------------------------------------------- actions
KnownIds == DOMAIN issued \cup {UnknownId}

Reasons == {"Password changed"}

\* the variables take the values of w; the clock and the database switch are
\* not written by any operation
Writes(w) ==
    /\ rng' = w.rng
    /\ session_cache' = w.session_cache
    /\ sessions' = w.sessions
    /\ session_audit_log' = w.session_audit_log
    /\ log_queue' = w.log_queue
    /\ ip_attempts' = w.ip_attempts
    /\ pending_updates' = w.pending_updates
    /\ g_current_request' = w.g_current_request
    /\ g_current_response' = w.g_current_response
    /\ current_user' = w.current_user
    /\ UNCHANGED <<now, ticks, db_up, reuse>>

Takes(w) == Writes(w) /\ UNCHANGED <<pc, threads>>

Becomes(w) == Takes(w) /\ Len(w.log_queue) <= MaxAudit

\* the record of the limiter calls: a call for ip at time t opens a window
\* when the window open so far is over
HistEntry == [opened |-> 0 - RESET_WINDOW, fails |-> << >>]

Touched(h, ip, t) ==
    IF t > h[ip].opened + RESET_WINDOW THEN [h EXCEPT ![ip].opened = t] ELSE h

FailedAt(h, ip, t) == [Touched(h, ip, t) EXCEPT ![ip].fails = Append(@, t)]

Cleared(h, ip) == [h EXCEPT ![ip].fails = << >>]

Init ==
    /\ now = 1
    /\ ticks = 0
    /\ rng = 0
    /\ db_up = TRUE
    /\ session_cache = EmptyMap
    /\ sessions = EmptyMap
    /\ session_audit_log = << >>
    /\ log_queue = << >>
    /\ ip_attempts = [ip \in IPs |-> RateLimitEntry]
    /\ pending_updates = EmptyMap
    /\ reuse = 0
    /\ issued = EmptyMap
    /\ gone = {}
    /\ rl_hist = [ip \in IPs |-> HistEntry]
    /\ g_current_request = NoRequest
    /\ g_current_response = NoResponse
    /\ current_user = EmptyUser
    /\ pc = "idle"
    /\ call = [t \in Workers |-> Idle]
    /\ session_mutex = 0
    /\ rate_limit_mutex = 0
    /\ log_mutex = 0

CreateSession(user_id, ip, ua) ==
    /\ rng < 4 * MaxSessions
    /\ LET r == create_session(World, user_id, ip, ua)
       IN /\ Becomes(r.w)
          /\ issued' = IF r.threw THEN issued
                       ELSE Put(issued, r.ret.session_id, r.ret)
          /\ rl_hist' = IF r.threw THEN Touched(rl_hist, ip, now)
                        ELSE Cleared(Touched(rl_hist, ip, now), ip)
    /\ UNCHANGED gone

\* what a load_session call shows about the id it is given
Observed(id, ip, ua) ==
    IF id \notin DOMAIN session_cache THEN {}
    ELSE IF BindingMismatch(session_cache[id], ip, ua) THEN {}
    ELSE IF Expired(now, session_cache[id]) THEN {<<id, "expired">>}
    ELSE {}

LoadSession(id, ip, ua) ==
    /\ Becomes(load_session(World, id, ip, ua).w)
    /\ gone' = gone \cup Observed(id, ip, ua)
    /\ UNCHANGED <<issued, rl_hist>>

\* the caller passes a Session it got from create_session, with the is_valid
\* flag it chose
SaveSession(id, valid) ==
    /\ id \in DOMAIN issued
    /\ Becomes(save_session(World, [issued[id] EXCEPT !.is_valid = valid]))
    /\ UNCHANGED <<issued, gone, rl_hist>>

DestroySession(id) ==
    /\ Becomes(destroy_session(World, id))
    /\ gone' = IF id \in DOMAIN session_cache
               THEN gone \cup {<<id, "destroyed">>} ELSE gone
    /\ UNCHANGED <<issued, rl_hist>>

RevokeAllUserSessions(user_id, reason) ==
    /\ Becomes(revoke_all_user_sessions(World, user_id, reason))
    /\ gone' = gone \cup {<<id, "revoked">> : id \in
                   {i \in DOMAIN session_cache :
                        session_cache[i].user_id = user_id}}
    /\ UNCHANGED <<issued, rl_hist>>

\* the clock advances
Tick(d) ==
    /\ ticks < MaxTicks
    /\ now' = now + d
    /\ ticks' = ticks + 1
    /\ UNCHANGED <<rng, db_up, session_cache, sessions, session_audit_log,
                   log_queue, ip_attempts, pending_updates, reuse, issued,
                   gone, rl_hist, http, threads>>

Next ==
    \/ \E u \in Users, ip \in CreateIPs, ua \in CreateAgents : CreateSession(u, ip, ua)
    \/ \E id \in KnownIds, ip \in IPs, ua \in UserAgents : LoadSession(id, ip, ua)
    \/ \E id \in KnownIds, valid \in BOOLEAN : SaveSession(id, valid)
    \/ \E id \in KnownIds : DestroySession(id)
    \/ \E u \in Users, reason \in Reasons : RevokeAllUserSessions(u, reason)
    \/ \E d \in TimeSteps : Tick(d)

Spec == Init /\ [][Next]_vars

\* ------------------------------------------------- the rate limiter alone
\* record_failed_login(ip), six_login.h lines 381-383
RecordFailedLogin(ip) ==
    /\ Len(rl_hist[ip].fails) <
           (IF ip \in CreateIPs THEN MaxFailed ELSE MaxOtherFailed)
    /\ ip_attempts' = record_failed_attempt(ip_attempts, ip, now)
    /\ rl_hist' = FailedAt(rl_hist, ip, now)
    /\ UNCHANGED <<now, ticks, rng, db_up, session_cache, sessions,
                   session_audit_log, log_queue, pending_updates, reuse,
                   issued, gone, http, threads>>

\* is_login_rate_limited(ip), six_login.h lines 377-379
IsLoginRateLimited(ip) ==
    /\ ip_attempts' = is_rate_limited(ip_attempts, ip, now).tbl
    /\ rl_hist' = Touched(rl_hist, ip, now)
    /\ UNCHANGED <<now, ticks, rng, db_up, session_cache, sessions,
                   session_audit_log, log_queue, pending_updates, reuse,
                   issued, gone, http, threads>>

\* RateLimiter::clear_failed_attempts(ip), called on its own
ClearFailedAttempts(ip) ==
    /\ ip_attempts' = clear_failed_attempts(ip_attempts, ip)
    /\ rl_hist' = Cleared(rl_hist, ip)
    /\ UNCHANGED <<now, ticks, rng, db_up, session_cache, sessions,
                   session_audit_log, log_queue, pending_updates, reuse,
                   issued, gone, http, threads>>

NextRate ==
    \/ \E u \in RateUsers, ip \in CreateIPs, ua \in CreateAgents : CreateSession(u, ip, ua)
    \/ \E ip \in IPs : RecordFailedLogin(ip)
    \/ \E ip \in IPs : IsLoginRateLimited(ip)
    \/ \E ip \in IPs : ClearFailedAttempts(ip)
    \/ \E d \in RateSteps : Tick(d)

SpecRate == Init /\ [][NextRate]_vars

\* ------------------------------------------------------------------ claims
Failed(id) == <<id, "destroyed">> \in gone \/ <<id, "revoked">> \in gone

LastLog == log_queue[Len(log_queue)]

\* C1: a session create_session returned loads, with the IP and user agent
\* it was created with, as exists=true with the user it was created for, as
\* long as it has not expired and was not destroyed or revoked.
C1_LoadAfterCreate ==
    \A id \in DOMAIN issued :
        (~Failed(id) /\ now <= issued[id].expires_at) =>
            LET r == load_session(World, id, issued[id].ip_address,
                                  issued[id].user_agent).ret
            IN r.exists /\ r.user_id = issued[id].user_id

\* C1 witness: a created session loads in the last second before it expires
C1_Witness ==
    \E id \in DOMAIN issued :
        /\ ~Failed(id)
        /\ now = issued[id].expires_at
        /\ load_session(World, id, issued[id].ip_address,
                        issued[id].user_agent).ret.exists

\* C2: loading a cached session with another IP or another user agent than
\* the one it holds returns exists=false and appends exactly one audit entry,
\* in memory and in the table, with action hijack_attempt and the IP the
\* caller presented.
C2_HijackAttempt ==
    \A id \in DOMAIN session_cache, ip \in IPs, ua \in UserAgents :
        (session_cache[id].ip_address # ip \/ session_cache[id].user_agent # ua) =>
            LET r == load_session(World, id, ip, ua)
                e == r.w.log_queue[Len(r.w.log_queue)]
            IN /\ ~r.ret.exists
               /\ r.w.log_queue = Append(log_queue, e)
               /\ r.w.session_audit_log = Append(session_audit_log, e)
               /\ e.action = "hijack_attempt"
               /\ e.ip_address = ip
               /\ e.session_id = id

\* C2 witness: the last audit entry is the hijack_attempt of a cached session
\* loaded from an IP that is not its own
C2_Witness ==
    /\ Len(log_queue) > 0
    /\ LastLog.action = "hijack_attempt"
    /\ LastLog.session_id \in DOMAIN session_cache
    /\ LastLog.ip_address # session_cache[LastLog.session_id].ip_address

\* C3: load_session never returns, as existing, a session whose expires_at is
\* earlier than the current time.
C3_NoExpiredSession ==
    \A id \in KnownIds, ip \in IPs, ua \in UserAgents :
        LET r == load_session(World, id, ip, ua).ret
        IN r.exists => ~(r.expires_at < now)

\* C3 witness: load_session met a cached session past its expiry, and the
\* same load is absent now
C3_Witness ==
    \E id \in DOMAIN issued :
        /\ <<id, "expired">> \in gone
        /\ issued[id].expires_at < now
        /\ ~load_session(World, id, issued[id].ip_address,
                         issued[id].user_agent).ret.exists

\* ids for which a hijack_attempt was recorded
Hijacked == {log_queue[i].session_id : i \in
                 {j \in 1..Len(log_queue) : log_queue[j].action = "hijack_attempt"}}

\* C4 (as claimed): an id that load_session observed expired, that
\* destroy_session or revoke_all_user_sessions removed, or for which a
\* hijack_attempt was recorded, is never again loaded as exists=true.
C4_NoReturnToActive ==
    \A id \in {g[1] : g \in gone} \cup Hijacked, ip \in IPs, ua \in UserAgents :
        ~load_session(World, id, ip, ua).ret.exists

\* the values the table sessions and the table session_audit_log hold as text
DurableStrings ==
    UNION {{sessions[h].session_id_hash, sessions[h].session_salt,
            sessions[h].ip_address, sessions[h].user_agent,
            sessions[h].refresh_token_hash, sessions[h].is_valid} :
              h \in DOMAIN sessions}
    \cup
    UNION {{session_audit_log[i].session_id, session_audit_log[i].action,
            session_audit_log[i].ip_address, session_audit_log[i].user_agent,
            session_audit_log[i].details} :
              i \in 1..Len(session_audit_log)}

\* C5 (as claimed): no column of a durable row holds the raw session_id of a
\* session.
C5_NoRawIdDurable ==
    \A id \in DOMAIN issued : id \notin DurableStrings

\* C6 (as claimed): a session revoke_all_user_sessions removed from the cache
\* fails every later load_session.
C6_RevokedStaysAbsent ==
    \A id \in DOMAIN issued, ip \in IPs, ua \in UserAgents :
        <<id, "revoked">> \in gone =>
            ~load_session(World, id, ip, ua).ret.exists

\* C7: destroy_session of a cached session whose durable row exists removes
\* the id from the cache and leaves the other entries, sets is_valid of that
\* row to 0 keeping the row and its other columns and every other row, and
\* appends exactly one logout entry, in memory and in the table.
C7_Destroy ==
    \A id \in DOMAIN session_cache :
        LET h == session_cache[id].session_id_hash
            w == destroy_session(World, id)
            e == w.log_queue[Len(w.log_queue)]
        IN h \in DOMAIN sessions =>
            /\ w.session_cache = Remove(session_cache, id)
            /\ w.sessions = [sessions EXCEPT ![h].is_valid = "0"]
            /\ w.log_queue = Append(log_queue, e)
            /\ w.session_audit_log = Append(session_audit_log, e)
            /\ e.action = "logout"
            /\ e.session_id = id
            /\ e.user_id = session_cache[id].user_id

\* C7 witness: a session was destroyed: it is out of the cache, its row is
\* still there with is_valid 0, and the last audit entry is its logout
C7_Witness ==
    \E id \in DOMAIN issued :
        /\ <<id, "destroyed">> \in gone
        /\ id \notin DOMAIN session_cache
        /\ issued[id].session_id_hash \in DOMAIN sessions
        /\ sessions[issued[id].session_id_hash].is_valid = "0"
        /\ Len(log_queue) > 0
        /\ LastLog.action = "logout"
        /\ LastLog.session_id = id

\* C8: destroy_session of an id that is not in the cache changes nothing, and
\* destroying an id twice leaves what destroying it once leaves.
C8_DestroyIdempotent ==
    \A id \in KnownIds :
        /\ id \notin DOMAIN session_cache => destroy_session(World, id) = World
        /\ destroy_session(destroy_session(World, id), id) =
               destroy_session(World, id)

\* C8 witness: a session that was destroyed is not in the cache, its durable
\* row is still there, and destroying it again changes nothing
C8_Witness ==
    \E id \in DOMAIN issued :
        /\ <<id, "destroyed">> \in gone
        /\ id \notin DOMAIN session_cache
        /\ issued[id].session_id_hash \in DOMAIN sessions
        /\ destroy_session(World, id) = World

\* C9 (as claimed): load_session never returns a session with exists=true and
\* is_valid=false.
C9_InvalidIsAbsent ==
    \A id \in KnownIds, ip \in IPs, ua \in UserAgents :
        LET r == load_session(World, id, ip, ua).ret
        IN ~(r.exists /\ ~r.is_valid)

\* C10 (as claimed): once a durable row has is_valid 0, no operation sets it
\* back to 1.
C10_InvalidStaysInvalid ==
    [][\A h \in DOMAIN sessions :
          sessions[h].is_valid = "0" =>
              h \in DOMAIN sessions' /\ sessions'[h].is_valid = "0"]_vars

\* ------------------------------------------------------ process restarts
\* the process ends and starts again: the statics (session_cache, log_queue,
\* ip_attempts, pending_updates) are empty again, the database file remains
Restart ==
    /\ session_cache # EmptyMap
    /\ session_cache' = EmptyMap
    /\ log_queue' = << >>
    /\ ip_attempts' = [ip \in IPs |-> RateLimitEntry]
    /\ pending_updates' = EmptyMap
    /\ rl_hist' = [ip \in IPs |-> HistEntry]
    /\ gone' = gone \cup {<<id, "restarted">> : id \in DOMAIN session_cache}
    /\ UNCHANGED <<now, ticks, rng, db_up, sessions, session_audit_log,
                   reuse, issued, http, threads>>

NextRestart ==
    \/ \E u \in Users, ip \in CreateIPs, ua \in CreateAgents : CreateSession(u, ip, ua)
    \/ \E id \in KnownIds, ip \in IPs, ua \in UserAgents : LoadSession(id, ip, ua)
    \/ \E id \in KnownIds : DestroySession(id)
    \/ Restart
    \/ \E d \in TimeSteps : Tick(d)

SpecRestart == Init /\ [][NextRestart]_vars

\* -------------------------------------------------------- refresh_session
BadToken == "bad"

\* the refresh tokens a caller can present
Tokens == {issued[i].refresh_token : i \in DOMAIN issued} \cup {BadToken}

\* the draws so far that made the refresh salt of a session, and 0
RefreshSalts == {n \in 0..rng : n % 4 = 0}

\* RAND_bytes is about to return the bytes it returned in its n-th retained
\* draw (n = 0: bytes it never returned)
Reuse(n) ==
    /\ n # reuse
    /\ reuse' = n
    /\ UNCHANGED <<now, ticks, rng, db_up, session_cache, sessions,
                   session_audit_log, log_queue, ip_attempts, pending_updates,
                   issued, gone, rl_hist, http, threads>>

\* the limiter calls refresh_session makes, by the way it ended
RefreshCalls(h, ip, r) ==
    IF r.error \in {"Invalid session", "Invalid refresh token"}
    THEN FailedAt(h, ip, now)
    ELSE IF r.error = "Refresh token expired" THEN h
    ELSE IF r.threw THEN Touched(h, ip, now)
    ELSE Cleared(Touched(h, ip, now), ip)

RefreshSession(id, token, ip, ua) ==
    LET r == refresh_session(World, id, token, ip, ua)
    IN /\ r.w.rng <= 4 * MaxRefreshSessions
       /\ Len(r.w.log_queue) <= MaxRefreshAudit
       /\ Len(RefreshCalls(rl_hist, ip, r)[ip].fails) <= MaxRefreshFailed
       /\ Takes(r.w)
       /\ issued' = IF r.threw THEN issued
                    ELSE Put(issued, r.ret.session_id, r.ret)
       /\ gone' = gone \cup Observed(id, ip, ua)
       /\ rl_hist' = RefreshCalls(rl_hist, ip, r)

\* the caller ends the life of the refresh token of a session it got from
\* create_session (refresh_expires_at in the past) and saves the session
SaveRefreshExpiry(id) ==
    /\ id \in DOMAIN issued
    /\ id \in DOMAIN session_cache
    /\ session_cache[id].refresh_expires_at = issued[id].refresh_expires_at
    /\ Takes(save_session(World,
                          [issued[id] EXCEPT !.refresh_expires_at = now - 1]))
    /\ UNCHANGED <<issued, gone, rl_hist>>

NextRefresh ==
    \/ \E u \in Users, ip \in CreateIPs, ua \in CreateAgents : CreateSession(u, ip, ua)
    \/ \E id \in KnownIds, token \in Tokens, ip \in CreateIPs, ua \in UserAgents :
           RefreshSession(id, token, ip, ua)
    \/ \E n \in RefreshSalts : Reuse(n)
    \/ \E id \in KnownIds : SaveRefreshExpiry(id)

SpecRefresh == Init /\ [][NextRefresh]_vars

\* ------------------------------------------- refreshes that fail, and logins
\* refresh_session is called with a session id and a token it rejects
FailedRefresh(id, token, ip, ua) ==
    LET r == refresh_session(World, id, token, ip, ua)
    IN /\ r.error \in {"Invalid session", "Invalid refresh token"}
       /\ Len(rl_hist[ip].fails) < MaxFailed
       /\ Becomes(r.w)
       /\ gone' = gone \cup Observed(id, ip, ua)
       /\ rl_hist' = RefreshCalls(rl_hist, ip, r)
       /\ UNCHANGED issued

NextThrottle ==
    \/ \E u \in RateUsers, ip \in CreateIPs, ua \in CreateAgents : CreateSession(u, ip, ua)
    \/ \E id \in KnownIds, token \in Tokens, ip \in CreateIPs, ua \in CreateAgents :
           FailedRefresh(id, token, ip, ua)
    \/ \E ip \in CreateIPs : ClearFailedAttempts(ip)
    \/ \E d \in RateSteps : Tick(d)

SpecThrottle == Init /\ [][NextThrottle]_vars

\* ------------------------------------------------------------ handleClient
\* the requests a client sends: the session cookie, the refresh cookie that
\* goes with it or none, the client IP and the user agent
Requests ==
    {[active |-> TRUE, session_id |-> id, refresh_token |-> t, ip |-> ip,
      user_agent |-> ua] :
        id \in KnownIds \cup {""},
        t \in {""} \cup {issued[i].refresh_token : i \in DOMAIN issued},
        ip \in IPs, ua \in CreateAgents}

\* the sessions w has in its cache that the cache did not have
Minted(w) ==
    [id \in DOMAIN issued \cup (DOMAIN w.session_cache \ DOMAIN session_cache)
        |-> IF id \in DOMAIN issued THEN issued[id] ELSE w.session_cache[id]]

\* handleClient, lines 387-394: a request was read and parsed; the globals
\* point to it and to its response, and current_user is resolved
BeginRequest(req, throws) ==
    /\ pc = "idle"
    /\ LET w == load_current_user(
                    [World EXCEPT !.g_current_request = req,
                                  !.g_current_response =
                                      [active |-> TRUE, headers |-> EmptyMap]],
                    throws)
       IN Writes(w) /\ Len(w.log_queue) <= MaxLoginAudit
    /\ pc' = "handler"
    /\ gone' = gone \cup Observed(req.session_id, req.ip, req.user_agent)
    /\ UNCHANGED <<issued, rl_hist, threads>>

UserKey(id) == "users:id:" \o ToString(id)

\* the route handler calls six_sql_find_by("users", "id", id), which stages
\* the row it finds (six_sql.h lines 229-274)
HandlerFindUser(id) ==
    /\ pc = "handler"
    /\ UserRowFound(World, id)
    /\ UserKey(id) \notin DOMAIN pending_updates
    /\ pending_updates' = Put(pending_updates, UserKey(id), [id |-> id])
    /\ UNCHANGED <<now, ticks, rng, db_up, session_cache, sessions,
                   session_audit_log, log_queue, ip_attempts, reuse, issued,
                   gone, rl_hist, http, threads>>

\* the route handler calls login_user
HandlerLogin(id) ==
    /\ pc = "handler"
    /\ rng < 4 * MaxSessions
    /\ LET w == login_user(World, UserRow(id))
       IN /\ Takes(w)
          /\ Len(w.log_queue) <= MaxLoginAudit
          /\ issued' = Minted(w)
          /\ rl_hist' = IF w.rng = rng
                        THEN Touched(rl_hist, g_current_request.ip, now)
                        ELSE Cleared(Touched(rl_hist, g_current_request.ip, now),
                                     g_current_request.ip)
    /\ UNCHANGED gone

\* the route handler calls logout_user
HandlerLogout ==
    /\ pc = "handler"
    /\ LET w == logout_user(World)
       IN Takes(w) /\ Len(w.log_queue) <= MaxLoginAudit
    /\ gone' = IF current_user.session_id \in DOMAIN session_cache
               THEN gone \cup {<<current_user.session_id, "destroyed">>}
               ELSE gone
    /\ UNCHANGED <<issued, rl_hist>>

\* the route handler calls refresh_session_token
HandlerRefresh ==
    /\ pc = "handler"
    /\ \E r \in {refresh_session_token(World)} :
          LET req == g_current_request
              called == req.active /\ req.session_id # "" /\ req.refresh_token # ""
              h == IF called
                   THEN RefreshCalls(rl_hist, req.ip,
                                     refresh_session(World, req.session_id,
                                                     req.refresh_token, req.ip,
                                                     req.user_agent))
                   ELSE rl_hist
          IN /\ r.w.rng <= 4 * MaxSessions
             /\ Len(r.w.log_queue) <= MaxLoginAudit
             /\ called => Len(h[req.ip].fails) <= MaxRefreshFailed
             /\ Takes(r.w)
             /\ issued' = Minted(r.w)
             /\ rl_hist' = h
             /\ gone' = IF ~called THEN gone
                        ELSE gone \cup Observed(req.session_id, req.ip,
                                                req.user_agent)
                             \cup (IF ~r.ret /\ current_user.session_id
                                           \in DOMAIN session_cache
                                   THEN {<<current_user.session_id, "destroyed">>}
                                   ELSE {})

\* the route handler throws: the exception leaves handleClient and is caught
\* in the worker loop, lines 149-155
HandlerThrows ==
    /\ pc = "handler"
    /\ pc' = "idle"
    /\ UNCHANGED <<now, ticks, rng, db_up, session_cache, sessions,
                   session_audit_log, log_queue, ip_attempts, pending_updates,
                   reuse, issued, gone, rl_hist, g_current_request,
                   g_current_response, current_user, threads>>

\* handleClient, lines 430-435 (send_response): the handler returned
EndRequest ==
    /\ pc = "handler"
    /\ pc' = "idle"
    /\ g_current_response' = NoResponse
    /\ g_current_request' = NoRequest
    /\ pending_updates' = EmptyMap
    /\ UNCHANGED <<now, ticks, rng, db_up, session_cache, sessions,
                   session_audit_log, log_queue, ip_attempts, reuse, issued,
                   gone, rl_hist, current_user, threads>>

\* another part of the program invalidates a session through save_session
InvalidateSession(id) ==
    /\ id \in DOMAIN issued
    /\ id \in DOMAIN session_cache
    /\ session_cache[id].is_valid
    /\ Takes(save_session(World, [issued[id] EXCEPT !.is_valid = FALSE]))
    /\ UNCHANGED <<issued, gone, rl_hist>>

\* requests whose handlers log in, log out and refresh
NextLogin ==
    \/ \E req \in Requests, throws \in BOOLEAN : BeginRequest(req, throws)
    \/ \E id \in Users : HandlerLogin(id)
    \/ HandlerLogout
    \/ HandlerRefresh
    \/ EndRequest
    \/ \E id \in KnownIds : InvalidateSession(id)

SpecLogin == Init /\ [][NextLogin]_vars

\* requests whose handlers read rows and may throw
NextRequest ==
    \/ \E req \in Requests, throws \in BOOLEAN : BeginRequest(req, throws)
    \/ \E id \in UserRows : HandlerFindUser(id)
    \/ \E id \in Users : HandlerLogin(id)
    \/ HandlerThrows
    \/ EndRequest

SpecRequest == Init /\ [][NextRequest]_vars

\* requests of one client over time: it logs in, logs out, and comes back
\* with its cookie later
NextLogout ==
    \/ \E req \in {r \in Requests : r.ip \in CreateIPs /\ r.refresh_token = ""} :
           BeginRequest(req, FALSE)
    \/ \E id \in UserRows : HandlerLogin(id)
    \/ HandlerLogout
    \/ EndRequest
    \/ \E d \in TimeSteps : Tick(d)

SpecLogout == Init /\ [][NextLogout]_vars

\* ------------------------------------------- the session operations in steps
\* A thread runs one operation at a time.  An operation starts with its
\* critical section on the cache (Enter...: session_mutex is taken and the
\* cache is read or written), releases the mutex (Leave) and goes on with its
\* storage steps; call[t].io counts the storage steps the call has made.

\* mutant: create_session takes the session out of the cache again when the
\* row cannot be written
RowStep_rolls_back(w, c) ==
    IF c.op = "create_session"
    THEN IF w.db_up
         THEN [w |-> six_sql_insert_sessions(w, SessionRow(c.s)), at |-> "audit"]
         ELSE [w |-> [w EXCEPT !.session_cache = Remove(@, c.s.session_id)],
               at |-> "audit"]
    ELSE IF c.op = "revoke_all_user_sessions"
    THEN [w |-> six_sql_exec_invalidate_user(w, c.user_id), at |-> "audit"]
    ELSE LET f == six_sql_find_by(w, c.s.session_id_hash)
         IN IF ~f.found THEN [w |-> f.w, at |-> "return"]
            ELSE IF c.op = "save_session"
            THEN [w |-> six_sql_commit(
                          StageIsValid(
                              StageUserId(f.w, c.s.session_id_hash, c.s.user_id),
                              c.s.session_id_hash,
                              IF c.s.is_valid THEN "1" ELSE "0")),
                  at |-> "return"]
            ELSE [w |-> six_sql_commit(StageIsValid(f.w, c.s.session_id_hash, "0")),
                  at |-> "audit"]

\* the write to the sessions table that follows the critical section:
\* create_session lines 436-440, save_session lines 573-582, destroy_session
\* lines 595-599, revoke_all_user_sessions lines 627-632; at is where the
\* call goes on
RowStep(w, c) ==
    IF c.op = "create_session"
    THEN [w |-> six_sql_insert_sessions(w, SessionRow(c.s)), at |-> "audit"]
    ELSE IF c.op = "revoke_all_user_sessions"
    THEN [w |-> six_sql_exec_invalidate_user(w, c.user_id), at |-> "audit"]
    ELSE LET f == six_sql_find_by(w, c.s.session_id_hash)
         IN IF ~f.found THEN [w |-> f.w, at |-> "return"]
            ELSE IF c.op = "save_session"
            THEN [w |-> six_sql_commit(
                          StageIsValid(
                              StageUserId(f.w, c.s.session_id_hash, c.s.user_id),
                              c.s.session_id_hash,
                              IF c.s.is_valid THEN "1" ELSE "0")),
                  at |-> "return"]
            ELSE [w |-> six_sql_commit(StageIsValid(f.w, c.s.session_id_hash, "0")),
                  at |-> "audit"]

\* the audit entry that ends the call: create_session lines 442-447,
\* destroy_session lines 600-603, revoke_all_user_sessions lines 634-637
AuditStep(w, c) ==
    IF c.op = "create_session"
    THEN [log_session_event(w, c.s.session_id, c.s.user_id, "create",
                            c.s.ip_address, c.s.user_agent,
                            "New session created")
             EXCEPT !.ip_attempts = clear_failed_attempts(@, c.s.ip_address)]
    ELSE IF c.op = "destroy_session"
    THEN log_session_event(w, c.id, c.s.user_id, "logout", "", "",
                           "Session destroyed - user logged out")
    ELSE log_session_event(w, "", c.user_id, "revoke_all", "", "",
                           "All sessions revoked: " \o c.reason)

\* thread t is free to start an operation
Free(t) == call[t].op = "idle" /\ session_mutex = 0

\* create_session, lines 380-414: the rate limiter is asked, the Session is
\* built and put into the cache under session_mutex
EnterCreate(t, user_id, ip, ua) ==
    /\ UNCHANGED locks
    /\ Free(t)
    /\ rng < 4 * MaxSessions
    /\ Len(log_queue) < MaxAudit
    /\ LET rl == is_rate_limited(ip_attempts, ip, now)
           w0 == [World EXCEPT !.ip_attempts = rl.tbl]
           s == NewSession(w0, user_id, ip, ua)
       IN IF rl.limited
          THEN /\ Writes(w0)
               /\ call' = [call EXCEPT ![t] =
                     [Idle EXCEPT !.op = "create_session", !.at = "return",
                                  !.threw = TRUE]]
               /\ UNCHANGED <<session_mutex, issued>>
          ELSE /\ Writes([w0 EXCEPT !.rng = w0.rng + 4,
                                    !.session_cache = Put(@, s.session_id, s)])
               /\ call' = [call EXCEPT ![t] =
                     [Idle EXCEPT !.op = "create_session", !.at = "locked",
                                  !.next = "row", !.s = s]]
               /\ session_mutex' = t
               /\ issued' = Put(issued, s.session_id, s)
    /\ rl_hist' = Touched(rl_hist, ip, now)
    /\ UNCHANGED <<gone, pc>>

\* load_session, lines 453-476: the cache is looked up under session_mutex
EnterLoad(t, id, ip, ua) ==
    /\ UNCHANGED locks
    /\ Free(t)
    /\ Len(log_queue) < MaxAudit
    /\ LET hit == id \in DOMAIN session_cache
           s == IF hit THEN session_cache[id] ELSE DefaultSession
           c == [Idle EXCEPT !.op = "load_session", !.id = id, !.ip = ip,
                             !.ua = ua, !.at = "locked", !.next = "return"]
       IN IF hit /\ BindingMismatch(s, ip, ua)
          THEN /\ call' = [call EXCEPT ![t] = [c EXCEPT !.at = "hijack"]]
               /\ UNCHANGED session_cache
          ELSE IF hit /\ Expired(now, s)
          THEN /\ call' = [call EXCEPT ![t] = c]
               /\ session_cache' = Remove(session_cache, id)
          ELSE IF hit
          THEN /\ call' = [call EXCEPT ![t] = [c EXCEPT !.s = s]]
               /\ UNCHANGED session_cache
          ELSE /\ call' = [call EXCEPT ![t] = [c EXCEPT !.next = "find"]]
               /\ UNCHANGED session_cache
    /\ session_mutex' = t
    /\ gone' = gone \cup Observed(id, ip, ua)
    /\ UNCHANGED <<now, ticks, rng, db_up, sessions, session_audit_log,
                   log_queue, ip_attempts, pending_updates, reuse, issued,
                   rl_hist, http>>

\* save_session, lines 566-569; the caller passes a Session it got from
\* create_session, with the is_valid flag it chose
EnterSave(t, id, valid) ==
    /\ UNCHANGED locks
    /\ Free(t)
    /\ id \in DOMAIN issued
    /\ LET s == [issued[id] EXCEPT !.is_valid = valid]
       IN /\ session_cache' = Put(session_cache, id, s)
          /\ call' = [call EXCEPT ![t] =
                [Idle EXCEPT !.op = "save_session", !.id = id, !.s = s,
                             !.at = "locked", !.next = "row"]]
    /\ session_mutex' = t
    /\ UNCHANGED <<now, ticks, rng, db_up, sessions, session_audit_log,
                   log_queue, ip_attempts, pending_updates, reuse, issued,
                   gone, rl_hist, http>>

\* destroy_session, lines 586-593
EnterDestroy(t, id) ==
    /\ UNCHANGED locks
    /\ Free(t)
    /\ Len(log_queue) < MaxAudit
    /\ session_cache' = Remove(session_cache, id)
    /\ call' = [call EXCEPT ![t] =
          [Idle EXCEPT !.op = "destroy_session", !.id = id,
                       !.s = IF id \in DOMAIN session_cache
                             THEN session_cache[id] ELSE DefaultSession,
                       !.at = "locked", !.next = "row"]]
    /\ session_mutex' = t
    /\ gone' = IF id \in DOMAIN session_cache
               THEN gone \cup {<<id, "destroyed">>} ELSE gone
    /\ UNCHANGED <<now, ticks, rng, db_up, sessions, session_audit_log,
                   log_queue, ip_attempts, pending_updates, reuse, issued,
                   rl_hist, http>>

\* revoke_all_user_sessions, lines 612-624
EnterRevoke(t, user_id, reason) ==
    /\ UNCHANGED locks
    /\ Free(t)
    /\ Len(log_queue) < MaxAudit
    /\ LET to_delete == {id \in DOMAIN session_cache :
                             session_cache[id].user_id = user_id}
       IN /\ session_cache' = [id \in DOMAIN session_cache \ to_delete |->
                                  session_cache[id]]
          /\ gone' = gone \cup {<<id, "revoked">> : id \in to_delete}
    /\ call' = [call EXCEPT ![t] =
          [Idle EXCEPT !.op = "revoke_all_user_sessions", !.user_id = user_id,
                       !.reason = reason, !.at = "locked", !.next = "row"]]
    /\ session_mutex' = t
    /\ UNCHANGED <<now, ticks, rng, db_up, sessions, session_audit_log,
                   log_queue, ip_attempts, pending_updates, reuse, issued,
                   rl_hist, http>>

\* load_session, lines 458-466: detect_hijack_attempt writes its audit entry
\* before the lock_guard of line 454 goes out of scope
Hijack(t) ==
    /\ UNCHANGED locks
    /\ call[t].at = "hijack"
    /\ session_mutex = t
    /\ Writes(detect_hijack_attempt(World, call[t].id, call[t].ip))
    /\ call' = [call EXCEPT ![t].at = "locked", ![t].io = @ + 1]
    /\ UNCHANGED <<session_mutex, pc, issued, gone, rl_hist>>

\* the lock_guard goes out of scope
Leave(t) ==
    /\ UNCHANGED locks
    /\ call[t].at = "locked"
    /\ session_mutex = t
    /\ session_mutex' = 0
    /\ call' = [call EXCEPT ![t].at = call[t].next]
    /\ UNCHANGED <<now, ticks, rng, db_up, session_cache, sessions,
                   session_audit_log, log_queue, ip_attempts, pending_updates,
                   reuse, issued, gone, rl_hist, http>>

\* load_session, lines 478-532: the rest of a cache miss
Find(t) ==
    /\ UNCHANGED locks
    /\ call[t].at = "find"
    /\ Writes(load_session_miss(World, call[t].id, call[t].ip, call[t].ua).w)
    /\ call' = [call EXCEPT ![t].at = "return", ![t].io = @ + 1]
    /\ UNCHANGED <<session_mutex, pc, issued, gone, rl_hist>>

Row(t) ==
    /\ UNCHANGED locks
    /\ call[t].at = "row"
    /\ LET r == RowStep(World, call[t])
       IN /\ Writes(r.w)
          /\ call' = [call EXCEPT ![t].at = r.at, ![t].io = @ + 1]
    /\ UNCHANGED <<session_mutex, pc, issued, gone, rl_hist>>

Audit(t) ==
    /\ UNCHANGED locks
    /\ call[t].at = "audit"
    /\ Writes(AuditStep(World, call[t]))
    /\ call' = [call EXCEPT ![t].at = "return", ![t].io = @ + 1]
    /\ rl_hist' = IF call[t].op = "create_session"
                  THEN Cleared(rl_hist, call[t].s.ip_address) ELSE rl_hist
    /\ UNCHANGED <<session_mutex, pc, issued, gone>>

\* the operation returns to its caller
Return(t) ==
    /\ UNCHANGED locks
    /\ call[t].at = "return"
    /\ call' = [call EXCEPT ![t] = Idle]
    /\ UNCHANGED <<now, ticks, rng, db_up, session_cache, sessions,
                   session_audit_log, log_queue, ip_attempts, pending_updates,
                   reuse, issued, gone, rl_hist, http, session_mutex>>

\* sqlite3_open starts or stops failing
ToggleStorage ==
    /\ db_up' = ~db_up
    /\ UNCHANGED <<now, ticks, rng, session_cache, sessions,
                   session_audit_log, log_queue, ip_attempts, pending_updates,
                   reuse, issued, gone, rl_hist, http, threads>>

NextSteps ==
    \/ \E t \in Threads, u \in RateUsers, ip \in CreateIPs, ua \in CreateAgents :
           EnterCreate(t, u, ip, ua)
    \/ \E t \in Threads, id \in KnownIds, ip \in IPs, ua \in CreateAgents :
           EnterLoad(t, id, ip, ua)
    \/ \E t \in Threads, id \in KnownIds, valid \in BOOLEAN : EnterSave(t, id, valid)
    \/ \E t \in Threads, id \in KnownIds : EnterDestroy(t, id)
    \/ \E t \in Threads, u \in RateUsers, reason \in Reasons : EnterRevoke(t, u, reason)
    \/ \E t \in Threads : Hijack(t)
    \/ \E t \in Threads : Leave(t)
    \/ \E t \in Threads : Find(t)
    \/ \E t \in Threads : Row(t)
    \/ \E t \in Threads : Audit(t)
    \/ \E t \in Threads : Return(t)
    \/ ToggleStorage

SpecSteps == Init /\ [][NextSteps]_vars

\* ------------------------------------------------- two workers side by side
\* six_sql_clear_pending(), six_sql.h lines 496-498
six_sql_clear_pending(w) == [w EXCEPT !.pending_updates = EmptyMap]

\* create_session lines 436-440 and revoke_all_user_sessions lines 626-631:
\* one SQL statement each
Statement(t) ==
    /\ call[t].op \in {"create_session", "revoke_all_user_sessions"}
    /\ Row(t)

\* destroy_session lines 596-598: six_sql_find_by stages the row in the
\* pending-updates map all threads share, and the handle it returns is
\* written through
Stage(t) ==
    /\ UNCHANGED locks
    /\ call[t].op = "destroy_session"
    /\ call[t].at = "row"
    /\ LET h == call[t].s.session_id_hash
           f == six_sql_find_by(World, h)
       IN IF f.found
          THEN /\ Writes(StageIsValid(f.w, h, "0"))
               /\ call' = [call EXCEPT ![t].at = "commit", ![t].io = @ + 1]
          ELSE /\ Writes(f.w)
               /\ call' = [call EXCEPT ![t].at = "return", ![t].io = @ + 1]
    /\ UNCHANGED <<session_mutex, pc, issued, gone, rl_hist>>

\* destroy_session line 599: six_sql_commit writes what the map holds now
Commit(t) ==
    /\ UNCHANGED locks
    /\ call[t].at = "commit"
    /\ Writes(six_sql_commit(World))
    /\ call' = [call EXCEPT ![t].at = "audit", ![t].io = @ + 1]
    /\ UNCHANGED <<session_mutex, pc, issued, gone, rl_hist>>

\* handleClient, six_http_server.h line 434: a worker that has sent the
\* response of its request clears the pending-updates map
ClearPending ==
    /\ UNCHANGED locks
    /\ pending_updates # EmptyMap
    /\ Writes(six_sql_clear_pending(World))
    /\ UNCHANGED <<session_mutex, call, pc, issued, gone, rl_hist>>

NextRace ==
    \/ \E t \in Workers, u \in RateUsers, ip \in CreateIPs, ua \in CreateAgents :
           EnterCreate(t, u, ip, ua)
    \/ \E t \in Workers, id \in KnownIds, ip \in CreateIPs, ua \in CreateAgents :
           EnterLoad(t, id, ip, ua)
    \/ \E t \in Workers, id \in KnownIds : EnterDestroy(t, id)
    \/ \E t \in Workers, u \in RateUsers, reason \in Reasons : EnterRevoke(t, u, reason)
    \/ \E t \in Workers : Leave(t)
    \/ \E t \in Workers : Find(t)
    \/ \E t \in Workers : Statement(t)
    \/ \E t \in Workers : Stage(t)
    \/ \E t \in Workers : Commit(t)
    \/ \E t \in Workers : Audit(t)
    \/ \E t \in Workers : Return(t)
    \/ ClearPending

SpecRace == Init /\ [][NextRace]_vars

\* ---------------------------------------------- two requests side by side
\* require_auth, six_login.h lines 289-299
require_auth(w) ==
    IF ~w.current_user.is_authenticated
    THEN [w |-> IF w.g_current_response.active
                THEN [w EXCEPT !.g_current_response.headers =
                         SetHeaders(@, [k \in {"Content-Type"} |->
                                           "application/json"])]
                ELSE w,
          ret |-> FALSE]
    ELSE [w |-> w, ret |-> TRUE]

\* worker t is inside the route handler of its request
InHandler(t) == call[t].op = "handleClient" /\ call[t].at = "handler"

\* handleClient, lines 387-394, run by worker t for the request req it has
\* read: the two global pointers are set and load_current_user fills the
\* process-wide current_user; s is what load_session returned for the cookie
\* of the request, if it was called
Accept(t, req) ==
    /\ UNCHANGED locks
    /\ call[t].op = "idle"
    /\ LET w0 == [World EXCEPT !.g_current_request = req,
                               !.g_current_response =
                                   [active |-> TRUE, headers |-> EmptyMap]]
           l == load_session(w0, req.session_id, req.ip, req.user_agent)
       IN /\ Writes(load_current_user(w0, FALSE))
          /\ call' = [call EXCEPT ![t] =
                [Idle EXCEPT !.op = "handleClient", !.at = "handler",
                             !.id = req.session_id, !.ip = req.ip,
                             !.ua = req.user_agent,
                             !.s = IF req.session_id = ""
                                   THEN DefaultSession ELSE l.ret]]
    /\ gone' = gone \cup Observed(req.session_id, req.ip, req.user_agent)
    /\ UNCHANGED <<session_mutex, pc, issued, rl_hist>>

\* the route handler of worker t calls require_auth
RequireAuth(t) ==
    /\ UNCHANGED locks
    /\ InHandler(t)
    /\ Writes(require_auth(World).w)
    /\ UNCHANGED <<session_mutex, call, pc, issued, gone, rl_hist>>

\* handleClient, lines 430-435, run by worker t
Finish(t) ==
    /\ UNCHANGED locks
    /\ InHandler(t)
    /\ call' = [call EXCEPT ![t] = Idle]
    /\ g_current_response' = NoResponse
    /\ g_current_request' = NoRequest
    /\ pending_updates' = EmptyMap
    /\ UNCHANGED <<now, ticks, rng, db_up, session_cache, sessions,
                   session_audit_log, log_queue, ip_attempts, reuse, issued,
                   gone, rl_hist, current_user, pc, session_mutex>>

\* the requests the two workers are given: with the cookie of a session,
\* with a cookie that names none, or without one
WorkerRequests ==
    {[active |-> TRUE, session_id |-> id, refresh_token |-> "", ip |-> ip,
      user_agent |-> ua] :
        id \in KnownIds \cup {""}, ip \in CreateIPs, ua \in CreateAgents}

NextWorkers ==
    \/ \E u \in RateUsers, ip \in CreateIPs, ua \in CreateAgents : CreateSession(u, ip, ua)
    \/ \E t \in Workers, req \in WorkerRequests : Accept(t, req)
    \/ \E t \in Workers : RequireAuth(t)
    \/ \E t \in Workers : Finish(t)
    \/ \E d \in TimeSteps : Tick(d)

SpecWorkers == Init /\ [][NextWorkers]_vars

\* --------------------------------------------------------- the three mutexes
\* What an operation does with the mutexes, in the order of its code: a
\* lock_guard is constructed, a lock_guard goes out of scope (at the end of
\* its block, at a return or while an exception unwinds), a storage call
\* is made.
Mutexes == {"session_mutex", "rate_limit_mutex", "log_mutex"}

Acq(m) == <<"lock", m>>
Rel(m) == <<"unlock", m>>
Io == <<"io", "">>

\* a critical section that calls nothing: session_mutex at lines 411-414,
\* 523-526, 566-569, 587-593, 612-624; rate_limit_mutex at lines 233-268
Guarded(m) == <<Acq(m), Rel(m)>>

\* RateLimiter::is_rate_limited, record_failed_attempt, clear_failed_attempts
RateCall == Guarded("rate_limit_mutex")

\* mutant: the audit logger looks at the session cache while it holds log_mutex
LogEvent_reads_cache ==
    <<Acq("log_mutex"), Acq("session_mutex"), Rel("session_mutex"),
      Rel("log_mutex"), Io>>

\* log_session_event, lines 300-305: the queue is pushed under log_mutex,
\* then write_audit_log_to_db runs
LogEvent == <<Acq("log_mutex"), Rel("log_mutex"), Io>>

\* load_session, lines 453-476, cache hit: the session is returned, or
\* erased because it is expired
LoadHit == Guarded("session_mutex")

\* load_session, lines 458-465: detect_hijack_attempt is called, and returns
\* or throws from the push, inside the scope of the lock_guard of line 454
LoadHijack ==
    {<<Acq("session_mutex")>> \o LogEvent \o <<Rel("session_mutex")>>,
     <<Acq("session_mutex"), Acq("log_mutex"), Rel("log_mutex"),
       Rel("session_mutex")>>}

\* load_session, lines 478-532, cache miss: no row or an expired one; a row
\* with another binding; a row that is put into the cache and logged
LoadMiss == Guarded("session_mutex") \o <<Io>>
LoadMissHijack == LoadMiss \o LogEvent
LoadMissFound == LoadMiss \o Guarded("session_mutex") \o LogEvent

\* the paths of load_session that return a session, and all of them
LoadFound == {LoadHit, LoadMissFound}
LoadPaths == LoadFound \cup LoadHijack \cup {LoadMiss, LoadMissHijack}

\* create_session, lines 380-447: throttled, or carried out
CreateThrottled == RateCall
CreateDone ==
    RateCall \o Guarded("session_mutex") \o <<Io>> \o LogEvent \o RateCall

\* refresh_session, lines 535-563: load_session, then a failed attempt is
\* recorded, or the token is expired, or create_session is called and,
\* unless it throws, the refresh is logged
RefreshPaths ==
    {p \o RateCall : p \in LoadPaths} \cup LoadFound
    \cup {p \o CreateThrottled : p \in LoadFound}
    \cup {p \o CreateDone \o LogEvent : p \in LoadFound}

\* save_session, lines 565-583: the row is not found, or committed
SavePaths ==
    {Guarded("session_mutex") \o <<Io>>, Guarded("session_mutex") \o <<Io, Io>>}

\* destroy_session, lines 585-609: the row is not found, or committed and
\* the logout logged
DestroyPaths ==
    {Guarded("session_mutex") \o <<Io>>,
     Guarded("session_mutex") \o <<Io, Io>> \o LogEvent}

\* revoke_all_user_sessions, lines 611-638
RevokePath == Guarded("session_mutex") \o <<Io>> \o LogEvent

\* every operation with every path through it
Programs ==
    {[op |-> "create_session", todo |-> p] : p \in {CreateThrottled, CreateDone}}
    \cup {[op |-> "load_session", todo |-> p] : p \in LoadPaths}
    \cup {[op |-> "refresh_session", todo |-> p] : p \in RefreshPaths}
    \cup {[op |-> "save_session", todo |-> p] : p \in SavePaths}
    \cup {[op |-> "destroy_session", todo |-> p] : p \in DestroyPaths}
    \cup {[op |-> "revoke_all_user_sessions", todo |-> RevokePath],
          [op |-> "RateLimiter", todo |-> RateCall],
          [op |-> "log_session_event", todo |-> LogEvent]}

\* the thread that holds m, 0 if none
Owner(m) ==
    IF m = "session_mutex" THEN session_mutex
    ELSE IF m = "rate_limit_mutex" THEN rate_limit_mutex
    ELSE log_mutex

\* thread t is given m, or gives it up (t = 0)
Hand(m, t) ==
    /\ session_mutex' = IF m = "session_mutex" THEN t ELSE session_mutex
    /\ rate_limit_mutex' = IF m = "rate_limit_mutex" THEN t ELSE rate_limit_mutex
    /\ log_mutex' = IF m = "log_mutex" THEN t ELSE log_mutex

Data == <<now, ticks, rng, db_up, session_cache, sessions, session_audit_log,
          log_queue, ip_attempts, pending_updates, reuse, issued, gone,
          rl_hist, http>>

\* thread t has steps of an operation left
Busy(t) == call[t].op # "idle"
Ahead(t, kind) ==
    /\ Busy(t)
    /\ call[t].todo # <<>>
    /\ call[t].todo[1][1] = kind

\* thread t calls an operation, which takes the path p
Call(t, p) ==
    /\ ~Busy(t)
    /\ call' = [call EXCEPT ![t] = [Idle EXCEPT !.op = p.op, !.todo = p.todo]]
    /\ UNCHANGED <<Data, session_mutex, locks>>

\* the constructor of a lock_guard returns when the mutex is free
Lock(t) ==
    /\ Ahead(t, "lock")
    /\ Owner(call[t].todo[1][2]) = 0
    /\ Hand(call[t].todo[1][2], t)
    /\ call' = [call EXCEPT ![t].todo = Tail(@)]
    /\ UNCHANGED Data

\* a lock_guard is destroyed
Unlock(t) ==
    /\ Ahead(t, "unlock")
    /\ Hand(call[t].todo[1][2], 0)
    /\ call' = [call EXCEPT ![t].todo = Tail(@)]
    /\ UNCHANGED Data

\* a storage call returns
Storage(t) ==
    /\ Ahead(t, "io")
    /\ call' = [call EXCEPT ![t].todo = Tail(@)]
    /\ UNCHANGED <<Data, session_mutex, locks>>

\* the operation returns or throws to its caller
Done(t) ==
    /\ Busy(t)
    /\ call[t].todo = <<>>
    /\ call' = [call EXCEPT ![t] = Idle]
    /\ UNCHANGED <<Data, session_mutex, locks>>

NextLocks ==
    \/ \E t \in Workers, p \in Programs : Call(t, p)
    \/ \E t \in Workers : Lock(t)
    \/ \E t \in Workers : Unlock(t)
    \/ \E t \in Workers : Storage(t)
    \/ \E t \in Workers : Done(t)

SpecLocks == Init /\ [][NextLocks]_vars

\* A thread that can run does: a thread at an unlock, at a storage call that
\* returns, or at the end of its operation goes on, and a thread that waits
\* for a mutex gets it if the mutex is free again and again.
SpecLocksFair ==
    /\ Init /\ [][NextLocks]_vars
    /\ \A t \in Workers :
          /\ WF_vars(Unlock(t)) /\ WF_vars(Storage(t)) /\ WF_vars(Done(t))
          /\ SF_vars(Lock(t))

\* -------------------------------------------------- claims C11 to C20
\* the IP has used up its attempts in the window that is open now
Throttled(ip) ==
    /\ ip_attempts[ip].attempts >= MAX_ATTEMPTS
    /\ now <= ip_attempts[ip].reset_time

\* s extends q by exactly one audit entry, of the given action and session
OneMore(s, q, action, id) ==
    /\ Len(s) = Len(q) + 1
    /\ SubSeq(s, 1, Len(q)) = q
    /\ s[Len(s)].action = action
    /\ s[Len(s)].session_id = id

\* C11: create_session from an IP that is rate limited throws the throttling
\* error and leaves the whole state as it was: the cache, the durable rows,
\* both audit logs and the attempt count of the IP.
C11_ThrottledCreate ==
    \A u \in Users, ip \in IPs, ua \in UserAgents :
        Throttled(ip) =>
            LET r == create_session(World, u, ip, ua)
            IN /\ r.threw
               /\ r.error = "Too many login attempts. Try again later."
               /\ r.w = World

\* C11 witness: a session exists and its IP has since been throttled
C11_Witness ==
    \E ip \in IPs :
        /\ Throttled(ip)
        /\ \E id \in DOMAIN session_cache : session_cache[id].ip_address = ip
        /\ create_session(World, 1, ip, "A").threw

\* C12: a create_session that returns adds one cache entry under the new id,
\* for the user and the binding given, existing and valid; adds one durable
\* row under the session's hash with is_valid 1; appends one create entry to
\* the audit log in memory and in the table; leaves the attempt count of the
\* IP at 0; and changes no cache entry or row that was there.
C12_CreatePost ==
    \A u \in Users, ip \in IPs, ua \in UserAgents :
        LET r == create_session(World, u, ip, ua)
            id == r.ret.session_id
            h == r.ret.session_id_hash
        IN ~r.threw =>
            /\ id \notin DOMAIN session_cache
            /\ DOMAIN r.w.session_cache = DOMAIN session_cache \cup {id}
            /\ \A k \in DOMAIN session_cache :
                   r.w.session_cache[k] = session_cache[k]
            /\ r.w.session_cache[id].session_id = id
            /\ r.w.session_cache[id].user_id = u
            /\ r.w.session_cache[id].ip_address = ip
            /\ r.w.session_cache[id].user_agent = ua
            /\ r.w.session_cache[id].exists
            /\ r.w.session_cache[id].is_valid
            /\ h \notin DOMAIN sessions
            /\ DOMAIN r.w.sessions = DOMAIN sessions \cup {h}
            /\ \A k \in DOMAIN sessions : r.w.sessions[k] = sessions[k]
            /\ r.w.sessions[h].is_valid = "1"
            /\ r.w.sessions[h].user_id = u
            /\ OneMore(r.w.log_queue, log_queue, "create", id)
            /\ OneMore(r.w.session_audit_log, session_audit_log, "create", id)
            /\ r.w.ip_attempts[ip].attempts = 0

\* C12 witness: a second session can be created from an IP that holds one
\* session and has failed attempts counted in the open window
C12_Witness ==
    \E ip \in IPs :
        /\ \E id \in DOMAIN session_cache : session_cache[id].ip_address = ip
        /\ ip_attempts[ip].attempts > 0
        /\ now <= ip_attempts[ip].reset_time
        /\ ~create_session(World, 2, ip, "B").threw

\* the failed attempts of ip, none cleared since, made in the window of ip
\* that is open now
InWindow(ip) ==
    {i \in 1..Len(rl_hist[ip].fails) : rl_hist[ip].fails[i] >= rl_hist[ip].opened}

\* the window of ip is still open
WindowOpen(ip) == now <= rl_hist[ip].opened + RESET_WINDOW

\* the failed attempts of ip, none cleared since, of the last 60 seconds
Recent(ip) ==
    {i \in 1..Len(rl_hist[ip].fails) : rl_hist[ip].fails[i] >= now - RESET_WINDOW}

\* C13: with exactly 5 failed attempts recorded in the open window
\* is_rate_limited is true, with 4 it is false, and once the window is over
\* (now > reset_time, 60 seconds after it opened) it is false again whatever
\* was recorded: no lockout outlasts the window.
C13_FiveInWindow ==
    \A ip \in IPs :
        LET limited == is_rate_limited(ip_attempts, ip, now).limited
        IN /\ (WindowOpen(ip) /\ Cardinality(InWindow(ip)) = MAX_ATTEMPTS)
                  => limited
           /\ (WindowOpen(ip) /\ Cardinality(InWindow(ip)) = MAX_ATTEMPTS - 1)
                  => ~limited
           /\ ~WindowOpen(ip) => ~limited

\* C13 witness: 5 failures in one window, the window is over, the 15 minutes
\* of LOCKOUT_DURATION are not, and the IP is not limited
C13_Witness ==
    \E ip \in IPs :
        /\ Cardinality(InWindow(ip)) = MAX_ATTEMPTS
        /\ ~WindowOpen(ip)
        /\ now < rl_hist[ip].fails[Len(rl_hist[ip].fails)] + LOCKOUT_DURATION
        /\ ~is_rate_limited(ip_attempts, ip, now).limited

\* C14, as claimed: is_rate_limited is true exactly when at least 5 failed
\* attempts, none cleared since, fall in the 60 seconds before the check.
C14_RollingWindow ==
    \A ip \in IPs :
        is_rate_limited(ip_attempts, ip, now).limited
            <=> Cardinality(Recent(ip)) >= MAX_ATTEMPTS

\* C14, amended: the window is fixed.  It opens with the first limiter call
\* for the IP after the window before it is over and lasts 60 seconds;
\* is_rate_limited is true exactly when that window is still open and at
\* least 5 failed attempts, none cleared since, were made in it.
C14_FixedWindow ==
    \A ip \in IPs :
        is_rate_limited(ip_attempts, ip, now).limited
            <=> (WindowOpen(ip) /\ Cardinality(InWindow(ip)) >= MAX_ATTEMPTS)

\* C14 witness: 5 failures in the last 60 seconds that fall on both sides of
\* the opening of the current window do not limit the IP
C14_Witness ==
    \E ip \in IPs :
        /\ Cardinality(Recent(ip)) >= MAX_ATTEMPTS
        /\ WindowOpen(ip)
        /\ InWindow(ip) # {}
        /\ Cardinality(InWindow(ip)) < MAX_ATTEMPTS
        /\ ~is_rate_limited(ip_attempts, ip, now).limited

\* C15: clear_failed_attempts(ip) sets the count of ip to 0 and leaves its
\* window, so that is_rate_limited(ip) is false right after it; the entries
\* of all other IPs are untouched.
C15_ClearResets ==
    \A ip \in IPs :
        LET tbl == clear_failed_attempts(ip_attempts, ip)
        IN /\ tbl[ip].attempts = 0
           /\ tbl[ip].reset_time = ip_attempts[ip].reset_time
           /\ ~is_rate_limited(tbl, ip, now).limited
           /\ \A o \in IPs \ {ip} : tbl[o] = ip_attempts[o]

\* C15 witness: a throttled IP is cleared while another IP has a count
C15_Witness ==
    \E ip \in IPs, o \in IPs :
        /\ o # ip
        /\ Throttled(ip)
        /\ ip_attempts[o].attempts > 0
        /\ ~is_rate_limited(clear_failed_attempts(ip_attempts, ip), ip, now).limited

\* C16: refresh_session with the id and the raw refresh token create_session
\* returned, from the IP and user agent of the session, while the session
\* loads, neither it nor the refresh token has expired and the IP is not
\* rate limited, returns a session of the same user.
C16_RefreshSucceeds ==
    \A id \in DOMAIN issued :
        LET s == issued[id]
        IN (/\ load_session(World, id, s.ip_address, s.user_agent).ret.exists
            /\ now <= s.expires_at
            /\ now <= s.refresh_expires_at
            /\ ~is_rate_limited(ip_attempts, s.ip_address, now).limited)
           => LET r == refresh_session(World, id, s.refresh_token,
                                       s.ip_address, s.user_agent)
              IN ~r.threw /\ r.ret.exists /\ r.ret.user_id = s.user_id

\* s extends q by exactly a create entry for one session followed by a
\* refresh entry for another
CreateThenRefresh(s, q, new_id, old_id) ==
    /\ Len(s) = Len(q) + 2
    /\ SubSeq(s, 1, Len(q)) = q
    /\ s[Len(q) + 1].action = "create"
    /\ s[Len(q) + 1].session_id = new_id
    /\ s[Len(q) + 2].action = "refresh"
    /\ s[Len(q) + 2].session_id = old_id

\* C17: when refresh_session returns, what it returns is a session
\* create_session has just put into the cache under an id that is not the
\* presented one, for the user of the presented session; the presented
\* session is in the cache as it was; and the audit log, in memory and in
\* the table, has grown by the create entry of the new session followed by
\* a refresh entry with the presented id.
C17_RefreshReturn ==
    \A id \in KnownIds, token \in Tokens, ip \in IPs, ua \in UserAgents :
        LET r == refresh_session(World, id, token, ip, ua)
            new_id == r.ret.session_id
        IN ~r.threw =>
            /\ new_id # id
            /\ new_id \notin DOMAIN session_cache
            /\ DOMAIN r.w.session_cache = DOMAIN session_cache \cup {new_id}
            /\ r.w.session_cache[new_id] = r.ret
            /\ r.ret.exists
            /\ id \in DOMAIN session_cache
            /\ r.w.session_cache[id] = session_cache[id]
            /\ r.ret.user_id = session_cache[id].user_id
            /\ CreateThenRefresh(r.w.log_queue, log_queue, new_id, id)
            /\ CreateThenRefresh(r.w.session_audit_log, session_audit_log,
                                 new_id, id)

\* C17 witness: a refresh_session has returned; the session it was given and
\* the one it made are both in the cache
C17_Witness ==
    /\ Len(log_queue) >= 2
    /\ LastLog.action = "refresh"
    /\ log_queue[Len(log_queue) - 1].action = "create"
    /\ LastLog.session_id \in DOMAIN session_cache
    /\ log_queue[Len(log_queue) - 1].session_id \in DOMAIN session_cache
    /\ LastLog.session_id # log_queue[Len(log_queue) - 1].session_id

\* the three ways refresh_session fails before it calls create_session
RefreshAbsent(id, ip, ua) == ~load_session(World, id, ip, ua).ret.exists

RefreshMismatch(id, token, ip, ua) ==
    LET l == load_session(World, id, ip, ua)
    IN /\ l.ret.exists
       /\ hash_with_salt(token, LookupSalt(l.w, token)) # l.ret.refresh_token_hash

RefreshExpired(id, token, ip, ua) ==
    LET l == load_session(World, id, ip, ua)
    IN /\ l.ret.exists
       /\ ~RefreshMismatch(id, token, ip, ua)
       /\ now > l.ret.refresh_expires_at

\* the limiter table after one more failed attempt of ip
OneMoreAttempt(ip) ==
    [ip_attempts EXCEPT ![ip] =
        IF now > ip_attempts[ip].reset_time
        THEN [attempts |-> 1, reset_time |-> now + RESET_WINDOW]
        ELSE [attempts |-> ip_attempts[ip].attempts + 1,
              reset_time |-> ip_attempts[ip].reset_time]]

NoMint(q, s) ==
    \A i \in (Len(q) + 1)..Len(s) : s[i].action \notin {"create", "refresh"}

\* C18: a refresh_session that is given an absent session, a refresh token
\* whose hash does not match or an expired refresh token throws; whenever it
\* throws, the cache has no new entry, the table sessions is as it was and
\* no create or refresh entry is appended to the audit log; the attempts of
\* the IP are counted up by one in the first two cases and the limiter is
\* untouched in the third.
C18_RefreshFailure ==
    \A id \in KnownIds, token \in Tokens, ip \in IPs, ua \in UserAgents :
        LET r == refresh_session(World, id, token, ip, ua)
            absent == RefreshAbsent(id, ip, ua)
            mismatch == RefreshMismatch(id, token, ip, ua)
            expired == RefreshExpired(id, token, ip, ua)
        IN /\ (absent \/ mismatch \/ expired) => r.threw
           /\ r.threw =>
                /\ DOMAIN r.w.session_cache \subseteq DOMAIN session_cache
                /\ r.w.sessions = sessions
                /\ r.w.rng = rng
                /\ NoMint(log_queue, r.w.log_queue)
                /\ NoMint(session_audit_log, r.w.session_audit_log)
                /\ (absent \/ mismatch) => r.w.ip_attempts = OneMoreAttempt(ip)
                /\ expired => r.w.ip_attempts = ip_attempts

\* C18 witness: in one state a refresh fails in each of the three ways: for
\* an unknown id, for a cached session with a wrong token, and for a cached
\* session with its own token after the refresh token expired
C18_Witness ==
    \E id \in DOMAIN session_cache :
        LET s == session_cache[id]
        IN /\ RefreshAbsent(UnknownId, s.ip_address, s.user_agent)
           /\ RefreshMismatch(id, BadToken, s.ip_address, s.user_agent)
           /\ RefreshExpired(id, issued[id].refresh_token, s.ip_address, s.user_agent)
           /\ refresh_session(World, id, issued[id].refresh_token,
                               s.ip_address, s.user_agent).error
                  = "Refresh token expired"
           /\ ip_attempts[s.ip_address].attempts > 0

\* C19: load_session for an id that is not in the cache returns exists=false
\* and leaves the cache and the audit log, in memory and in the table, as
\* they were, whatever durable rows there are.
C19_MissNeverMatches ==
    \A id \in KnownIds \ DOMAIN session_cache, ip \in IPs, ua \in UserAgents :
        LET r == load_session(World, id, ip, ua)
        IN /\ ~r.ret.exists
           /\ r.w.session_cache = session_cache
           /\ r.w.log_queue = log_queue
           /\ r.w.session_audit_log = session_audit_log

\* C19 witness: a session that is not in the cache has a valid durable row
\* that has not expired, and loading it with its own binding finds nothing
C19_Witness ==
    \E id \in DOMAIN issued \ DOMAIN session_cache :
        LET h == issued[id].session_id_hash
        IN /\ h \in DOMAIN sessions
           /\ sessions[h].is_valid = "1"
           /\ now <= sessions[h].expires_at
           /\ ~load_session(World, id, sessions[h].ip_address,
                             sessions[h].user_agent).ret.exists

\* C20: no session load_session returns carries a raw refresh token.
C20_NoRawRefreshToken ==
    \A id \in KnownIds, ip \in IPs, ua \in UserAgents :
        load_session(World, id, ip, ua).ret.refresh_token = ""
\* ------------------------------------------------------- claims C21..C30
\* the world in which the request req is being served
Serving(req) ==
    [World EXCEPT !.g_current_request = req,
                  !.g_current_response = [active |-> TRUE, headers |-> EmptyMap]]

\* C21: after load_from_request, is_authenticated is true only if the request
\* carried a session_id cookie, load_session for it with the request's IP and
\* user agent returned exists, is_valid and a user id other than 0, and the
\* user's row was found (the id is then that user's); in every other case,
\* an exception included, is_authenticated is false and id is 0.
C21_LoadFromRequest ==
    \A req \in Requests, throws \in BOOLEAN :
        LET cu == load_from_request(Serving(req), throws).current_user
            l == load_session(World, req.session_id, req.ip, req.user_agent)
            thrown == throws /\ req.session_id \notin DOMAIN session_cache
            loaded == /\ req.session_id # ""
                      /\ ~thrown
                      /\ l.ret.exists /\ l.ret.is_valid /\ l.ret.user_id # 0
                      /\ UserRowFound(l.w, l.ret.user_id)
        IN /\ cu.is_authenticated <=> loaded
           /\ cu.is_authenticated => cu.id = l.ret.user_id
           /\ ~cu.is_authenticated => cu.id = 0

\* C21 witness: a request that carries the cookie of a cached session has
\* just been resolved to the session's user
C21_Witness ==
    /\ pc = "handler"
    /\ g_current_response.headers = EmptyMap
    /\ current_user.is_authenticated
    /\ current_user.session_id = g_current_request.session_id
    /\ current_user.session_id \in DOMAIN session_cache
\* the response's session cookie is the cleared one
CookieCleared(w) ==
    /\ "Set-Cookie" \in DOMAIN w.g_current_response.headers
    /\ w.g_current_response.headers["Set-Cookie"] = ClearedCookie

\* every durable row of the issued session id is invalid
RowInvalid(w, id) ==
    id \in DOMAIN issued =>
        \A h \in DOMAIN w.sessions :
            h = issued[id].session_id_hash => w.sessions[h].is_valid = "0"

\* what logout_user leaves behind in every case: the session named by
\* current_user is not in the cache and does not load, the cookie is cleared
\* and current_user is empty
LoggedOut(w, id) ==
    /\ id \notin DOMAIN w.session_cache
    /\ \A ip \in IPs, ua \in UserAgents : ~load_session(w, id, ip, ua).ret.exists
    /\ CookieCleared(w)
    /\ ~w.current_user.is_authenticated
    /\ w.current_user.session_id = ""

\* logout_user destroyed nothing and logged nothing
NothingDestroyed(w) ==
    /\ w.session_cache = session_cache
    /\ w.sessions = sessions
    /\ w.log_queue = log_queue
    /\ w.session_audit_log = session_audit_log

C23_Login ==
    \A u \in Users :
        /\ login_user(World, NullRow) = World
        /\ login_user([World EXCEPT !.g_current_request = NoRequest], UserRow(u))
               = [World EXCEPT !.g_current_request = NoRequest]
        /\ login_user([World EXCEPT !.g_current_response = NoResponse], UserRow(u))
               = [World EXCEPT !.g_current_response = NoResponse]
        /\ (/\ pc = "handler"
            /\ ~is_rate_limited(ip_attempts, g_current_request.ip, now).limited)
           => LET w == login_user(World, UserRow(u))
                  new == DOMAIN w.session_cache \ DOMAIN session_cache
                  id == w.current_user.session_id
                  n == Len(log_queue)
              IN /\ new = {id}
                 /\ DOMAIN session_cache \subseteq DOMAIN w.session_cache
                 /\ Cardinality(DOMAIN w.sessions \ DOMAIN sessions) = 1
                 /\ w.session_cache[id].user_id = u
                 /\ w.g_current_response.headers["Set-Cookie"] = SessionCookie(id)
                 /\ OneMore(SubSeq(w.log_queue, 1, n + 1), log_queue, "create", id)
                 /\ OneMore(w.log_queue, SubSeq(w.log_queue, 1, n + 1), "login", id)
                 /\ w.ip_attempts[g_current_request.ip].attempts = 0
                 /\ w.current_user.is_authenticated
                 /\ w.current_user.id = u

\* C23 witness: login_user has just logged a user in: the response carries
\* the cookie of current_user's session, which is in the cache, and the audit
\* log ends with that session's create and login entries
C23_Witness ==
    /\ pc = "handler"
    /\ current_user.is_authenticated
    /\ current_user.session_id \in DOMAIN session_cache
    /\ "Set-Cookie" \in DOMAIN g_current_response.headers
    /\ g_current_response.headers["Set-Cookie"] = SessionCookie(current_user.session_id)
    /\ Len(log_queue) >= 2
    /\ log_queue[Len(log_queue) - 1].action = "create"
    /\ log_queue[Len(log_queue)].action = "login"
    /\ log_queue[Len(log_queue)].session_id = current_user.session_id
    /\ ip_attempts[g_current_request.ip].attempts = 0
\* C24: while a request is served, refresh_session_token returns true only
\* when refresh_session succeeded, and then the response cookie and
\* current_user carry the new session id; whenever it returns false it has
\* performed a full logout: the current session is out of the cache, the
\* session cookie is cleared and current_user is cleared.
C24_RefreshOrLogout ==
    pc = "handler" =>
        LET r == refresh_session_token(World)
            req == g_current_request
            rr == refresh_session(World, req.session_id, req.refresh_token,
                                  req.ip, req.user_agent)
        IN IF r.ret
           THEN /\ ~rr.threw
                /\ r.w.current_user.session_id = rr.ret.session_id
                /\ r.w.g_current_response.headers["Set-Cookie"]
                       = SessionCookie(rr.ret.session_id)
           ELSE /\ current_user.session_id \notin DOMAIN r.w.session_cache
                /\ CookieCleared(r.w)
                /\ r.w.current_user = EmptyUser
\* C25: when no request is being served, current_user is empty: it is not
\* authenticated and its id and session_id are cleared.
C25_EmptyBetweenRequests ==
    pc = "idle" =>
        /\ ~current_user.is_authenticated
        /\ current_user.id = 0
        /\ current_user.session_id = ""
\* the passwords a caller may present
Passwords == {"", "secret", "wrong"}

\* C26: require_reauthentication does not depend on its password argument:
\* any two passwords give the same result in the same state, and the result
\* is true exactly when current_user is authenticated and the user's durable
\* row exists.
C26_PasswordIgnored ==
    \A p1 \in Passwords, p2 \in Passwords :
        /\ require_reauthentication(World, p1) = require_reauthentication(World, p2)
        /\ require_reauthentication(World, p1)
               <=> (current_user.is_authenticated /\ current_user.id \in UserRows)

\* C26 witness: a request of an authenticated user whose row exists is being
\* served, and re-authentication succeeds with a wrong and with an empty
\* password
C26_Witness ==
    /\ pc = "handler"
    /\ current_user.is_authenticated
    /\ require_reauthentication(World, "wrong")
    /\ require_reauthentication(World, "")
\* q is an initial part of s
IsPrefix(q, s) == Len(q) <= Len(s) /\ SubSeq(s, 1, Len(q)) = q

\* C27: the audit log is append-only: every step of every session operation
\* leaves the audit entries in memory and the rows of session_audit_log that
\* existed before it unchanged and in their order, and adds new ones only at
\* the end.
C27_AppendOnly ==
    [][/\ IsPrefix(log_queue, log_queue')
       /\ IsPrefix(session_audit_log, session_audit_log')]_vars

\* C27 witness: an entry has been added to a log that already had one, in
\* memory and in the table
C27_Witness ==
    /\ Len(log_queue) >= 2
    /\ Len(session_audit_log) >= 2
    /\ log_queue[1].timestamp <= log_queue[2].timestamp
\* the operations that change a session
MutationOps ==
    {"create_session", "save_session", "destroy_session",
     "revoke_all_user_sessions"}

\* the step taken is a storage step of thread t
StorageStep(t) == call'[t].io > call[t].io

\* C28: in create_session, save_session, destroy_session and
\* revoke_all_user_sessions the cache changes only in the step that holds
\* session_mutex, the tables are written only in later steps, after the
\* mutex is released, and each such step is taken once; a storage step that
\* fails (storage is down) writes nothing, leaves the cache as the critical
\* section left it, throws nothing and moves the call on, so that the call
\* returns normally after at most two storage steps.
C28_CacheFirst ==
    [][\A t \in Threads :
          LET c == call[t]
              d == call'[t]
          IN (c.op \in MutationOps \/ d.op \in MutationOps) =>
                /\ session_cache' # session_cache =>
                       c.op = "idle" /\ session_mutex' = t
                /\ (sessions' # sessions \/ session_audit_log' # session_audit_log)
                       => StorageStep(t)
                /\ StorageStep(t) =>
                       /\ c.at \in {"row", "audit"}
                       /\ session_mutex = 0 /\ session_mutex' = 0
                       /\ session_cache' = session_cache
                       /\ d.at # c.at
                       /\ d.at \in {"audit", "return"}
                       /\ d.io <= 2
                       /\ ~d.threw
                       /\ ~db_up => /\ sessions' = sessions
                                    /\ session_audit_log' = session_audit_log
                /\ (d.op = "idle" /\ c.io > 0) => ~c.threw
      ]_vars

\* C28 witness: create_session is about to return normally after both its
\* storage steps failed: the session is in the cache, it has no durable row
\* and its create entry is in the queue but not in the audit table
C28_Witness ==
    \E t \in Threads :
        /\ call[t].op = "create_session"
        /\ call[t].at = "return"
        /\ call[t].io = 2
        /\ ~call[t].threw
        /\ call[t].s.session_id \in DOMAIN session_cache
        /\ call[t].s.session_id_hash \notin DOMAIN sessions
        /\ Len(log_queue) > Len(session_audit_log)

\* C29: no thread makes a storage step while it holds session_mutex.
C29_NoStorageUnderLock ==
    [][\A t \in Threads : StorageStep(t) => session_mutex # t]_vars
\* C30: when no request is being served, the pending-updates staging map is
\* empty and the global request and response pointers are reset.
C30_CleanBetweenRequests ==
    pc = "idle" =>
        /\ pending_updates = EmptyMap
        /\ ~g_current_request.active
        /\ ~g_current_response.active
\* ------------------------------------------------------- claims C31..C40
\* the sessions of user u in the cache
CachedOf(u) == {id \in DOMAIN session_cache : session_cache[id].user_id = u}

\* C31: revoke_all_user_sessions(u, reason) appends exactly one audit entry,
\* in memory and in the table: a revoke_all entry with user id u and an empty
\* session id, however many sessions of u are cached, none included.
C31_OneRevokeEntry ==
    \A u \in Users, reason \in Reasons :
        LET w == revoke_all_user_sessions(World, u, reason)
        IN /\ OneMore(w.log_queue, log_queue, "revoke_all", "")
           /\ w.log_queue[Len(w.log_queue)].user_id = u
           /\ OneMore(w.session_audit_log, session_audit_log, "revoke_all", "")
           /\ w.session_audit_log[Len(w.session_audit_log)].user_id = u

\* C31 witness: revoke_all_user_sessions has removed a cached session and
\* the audit log ends with its revoke_all entry, which follows the create
\* entry of that session
C31_Witness ==
    /\ \E id \in DOMAIN issued : <<id, "revoked">> \in gone
    /\ Len(log_queue) >= 2
    /\ log_queue[Len(log_queue)].action = "revoke_all"
    /\ log_queue[Len(log_queue) - 1].action = "create"
\* C36: a binding mismatch does not change the session store: load_session
\* of a cached session with another IP or user agent returns exists=false,
\* logs one hijack_attempt entry and leaves the cache and the sessions table
\* as they were, also when the session has expired; if it has not expired, a
\* load_session with the session's own IP and user agent right afterwards
\* returns the session.
C36_MismatchKeepsStore ==
    \A id \in DOMAIN session_cache, ip \in IPs, ua \in UserAgents :
        LET s == session_cache[id]
            r == load_session(World, id, ip, ua)
            again == load_session(r.w, id, s.ip_address, s.user_agent)
        IN BindingMismatch(s, ip, ua) =>
              /\ ~r.ret.exists
              /\ r.w.session_cache = session_cache
              /\ r.w.sessions = sessions
              /\ OneMore(r.w.log_queue, log_queue, "hijack_attempt", id)
              /\ ~Expired(now, s) => again.ret = s /\ again.ret.exists

\* C36 witness: a hijack attempt has been logged for a session that is still
\* in the cache as it was issued, has not expired and loads with its own
\* binding
C36_Witness ==
    \E id \in DOMAIN session_cache :
        /\ session_cache[id] = issued[id]
        /\ \E i \in DOMAIN log_queue :
              log_queue[i].action = "hijack_attempt" /\ log_queue[i].session_id = id
        /\ ~Expired(now, session_cache[id])
        /\ load_session(World, id, session_cache[id].ip_address,
                        session_cache[id].user_agent).ret.exists
\* C39: revoke_all_user_sessions(u, reason) touches only user u: every
\* cached session of another user is still in the cache unchanged and loads
\* as it did before, the durable rows of other users are unchanged, the
\* sessions of u are out of the cache, and the rate-limiter table is
\* unchanged.
C39_OnlyUserU ==
    \A u \in Users, reason \in Reasons :
        LET w == revoke_all_user_sessions(World, u, reason)
        IN /\ \A id \in DOMAIN session_cache \ CachedOf(u) :
                 /\ id \in DOMAIN w.session_cache
                 /\ w.session_cache[id] = session_cache[id]
                 /\ \A ip \in IPs, ua \in UserAgents :
                        load_session(w, id, ip, ua).ret
                            = load_session(World, id, ip, ua).ret
           /\ DOMAIN w.session_cache = DOMAIN session_cache \ CachedOf(u)
           /\ DOMAIN w.sessions = DOMAIN sessions
           /\ \A h \in DOMAIN sessions :
                 sessions[h].user_id # u => w.sessions[h] = sessions[h]
           /\ w.ip_attempts = ip_attempts

\* C39 witness: a session of user 1 is cached and valid in its row, its IP
\* has failed attempts on record, and revoking the sessions of user 2 keeps
\* it while revoking those of user 1 removes it
C39_Witness ==
    \E id \in DOMAIN session_cache, reason \in Reasons :
        LET s == session_cache[id]
        IN /\ s.user_id = 1
           /\ s.session_id_hash \in DOMAIN sessions
           /\ sessions[s.session_id_hash].is_valid = "1"
           /\ ip_attempts[s.ip_address].attempts > 0
           /\ id \in DOMAIN revoke_all_user_sessions(World, 2, reason).session_cache
           /\ id \notin DOMAIN revoke_all_user_sessions(World, 1, reason).session_cache
\* C37: failed refreshes count against the login throttle: while the window
\* of an IP is open and five refresh_session calls from it have failed in
\* that window with an invalid session or an invalid refresh token, none
\* cleared since, create_session from that IP throws the throttling error
\* and changes nothing; with fewer than five, after the window is over, or
\* after clear_failed_attempts, it does not throw.
C37_RefreshThrottles ==
    \A u \in Users, ip \in CreateIPs, ua \in UserAgents :
        LET r == create_session(World, u, ip, ua)
            five == Cardinality(InWindow(ip)) >= MAX_ATTEMPTS
        IN /\ (WindowOpen(ip) /\ five) =>
                  /\ r.threw
                  /\ r.error = "Too many login attempts. Try again later."
                  /\ r.w = World
           /\ (~WindowOpen(ip) \/ ~five) => ~r.threw

\* C37 witness: five refreshes from one IP have failed in its open window,
\* a session is cached, and
\* create_session from that IP throws
C37_Witness ==
    \E ip \in CreateIPs :
        /\ WindowOpen(ip)
        /\ Cardinality(InWindow(ip)) = MAX_ATTEMPTS
        /\ session_cache # EmptyMap
        /\ create_session(World, 1, ip, "A").threw
\* the identities current_user can hold when login_user is called: nobody,
\* or the owner of a session issued before
Identities ==
    {EmptyUser} \cup
    {[is_authenticated |-> TRUE, id |-> issued[id].user_id, session_id |-> id,
      refresh_token |-> issued[id].refresh_token,
      ip_address |-> issued[id].ip_address,
      user_agent |-> issued[id].user_agent] : id \in DOMAIN issued}

\* C38: when the client IP of the request being served is rate-limited,
\* create_session throws the throttling error and login_user returns with
\* everything as it was: no Set-Cookie and no X-Refresh-Token header, no
\* audit entry, the IP's failed-attempt count and current_user unchanged.
C38_LoginSwallows ==
    \A ip \in CreateIPs, ua \in CreateAgents, u \in UserRows, cu \in Identities :
        LET req == [active |-> TRUE, session_id |-> "", refresh_token |-> "",
                    ip |-> ip, user_agent |-> ua]
            w0 == [Serving(req) EXCEPT !.current_user = cu]
            c == create_session(w0, u, ip, ua)
            w == login_user(w0, UserRow(u))
        IN Throttled(ip) =>
              /\ c.threw
              /\ c.error = "Too many login attempts. Try again later."
              /\ w.g_current_response.headers = EmptyMap
              /\ w.log_queue = log_queue
              /\ w.session_audit_log = session_audit_log
              /\ w.ip_attempts = ip_attempts
              /\ w.current_user = cu
              /\ w = w0

\* C38 witness: an IP is rate-limited while a session issued before is still
\* cached, so that login_user is called for a throttled IP with an identity
\* to lose and a failed-attempt count to clear
C38_Witness ==
    \E ip \in CreateIPs :
        /\ Throttled(ip)
        /\ ip_attempts[ip].attempts = MAX_ATTEMPTS
        /\ \E id \in DOMAIN session_cache : id \in DOMAIN issued
\* no operation is in progress
Quiescent == \A t \in Workers : call[t].op = "idle"

\* C35: once create_session(u) and revoke_all_user_sessions(u) have both
\* completed, a session that revoke removed from the cache has a durable row
\* with is_valid = 0.
C35_RevokedIsInvalid ==
    Quiescent =>
        \A id \in DOMAIN issued :
            <<id, "revoked">> \in gone =>
                /\ issued[id].session_id_hash \in DOMAIN sessions
                /\ sessions[issued[id].session_id_hash].is_valid = "0"
\* C32: in every quiescent state every session in the cache has a durable
\* sessions row, keyed by its session_id_hash, with is_valid = 1.
C32_CachedIsDurable ==
    Quiescent =>
        \A id \in DOMAIN session_cache :
            /\ session_cache[id].session_id_hash \in DOMAIN sessions
            /\ sessions[session_cache[id].session_id_hash].is_valid = "1"

\* C34: when destroy_session returns for a session that was in the cache and
\* whose durable row six_sql_find_by found, that row has is_valid = 0.
C34_StagedIsCommitted ==
    \A t \in Workers :
        (/\ call[t].op = "destroy_session"
         /\ call[t].at = "return"
         /\ call[t].s.exists
         /\ call[t].io = 3) =>
            sessions[call[t].s.session_id_hash].is_valid = "0"
\* C33: require_auth() called while worker t handles its request returns
\* true only if load_session resolved the session cookie of that request to
\* a live session, and current_user is then the identity of that request.
C33_OwnIdentity ==
    \A t \in Workers :
        (InHandler(t) /\ require_auth(World).ret) =>
            /\ call[t].id # ""
            /\ call[t].s.exists
            /\ call[t].s.is_valid
            /\ current_user.session_id = call[t].id
            /\ current_user.id = call[t].s.user_id
\* the mutexes thread t holds
Held(t) == {m \in Mutexes : Owner(m) = t}

\* thread t waits for a mutex that another thread holds
Blocked(t) == Ahead(t, "lock") /\ Owner(call[t].todo[1][2]) # 0

\* the mutexes are taken in one order only: a thread that takes a mutex
\* holds none, or holds session_mutex and takes log_mutex
LockOrder ==
    \A t \in Workers :
        Ahead(t, "lock") =>
            \/ Held(t) = {}
            \/ Held(t) = {"session_mutex"} /\ call[t].todo[1][2] = "log_mutex"

\* a thread that waits, waits for a thread that is running
NoDeadlock ==
    \A t \in Workers :
        Blocked(t) =>
            LET o == Owner(call[t].todo[1][2])
            IN o # t /\ Busy(o) /\ ~Blocked(o)

\* a thread that is in no operation holds no mutex
AllReleased == \A t \in Workers : ~Busy(t) => Held(t) = {}

\* C40: under any interleaving of the session operations, the rate-limiter
\* calls and the audit-logger calls of two threads, the mutexes are never
\* taken in conflicting orders, no thread waits for a thread that cannot run,
\* a thread that has left its operation (by return or exception) holds no
\* mutex, and every operation that was started completes.
C40_NoDeadlock ==
    /\ [](LockOrder /\ NoDeadlock /\ AllReleased)
    /\ \A t \in Workers : Busy(t) ~> ~Busy(t)

\* C40 witness: a thread holds session_mutex and log_mutex at once (the
\* hijack path of load_session) while the other thread waits for a mutex
C40_Witness ==
    \E t \in Workers, o \in Workers :
        /\ Held(t) = {"session_mutex", "log_mutex"}
        /\ Blocked(o)
====
